---- MODULE Spec2Model ----
(***************************************************************************)
(* Model of the LLM provider strategies of meet_note                       *)
(* (src/app/llm_strategies): model catalog, usage snapshot, pricing,       *)
(* send_message, the continuation loop of generate_full_response and the   *)
(* strategy factory; of the callers of the strategies, the session totals  *)
(* (src/app/utils/llm_stats.py), generate_large_document                   *)
(* (src/app/utils/document_generation.py) and the page pipeline            *)
(* (src/app/ui).                                                           *)
(*                                                                         *)
(* Text is modelled as a sequence of string atoms (single characters, or a *)
(* whole literal where its inside never matters).  Python's None is the    *)
(* string "None" where the value is a name (model name, stop reason) and   *)
(* the record NoneContent where the value is a text.                       *)
(* Prices are kept as integers: a catalog price is in cents per million    *)
(* tokens and a cost is in units of 1e-10 dollars, so that every           *)
(* multiplier of the pricing formulas (1.25, 0.1, 0.5) stays exact.        *)
(***************************************************************************)
EXTENDS Integers, Sequences, FiniteSets, TLC

VARIABLES
    strategy,   \* class of the strategy object ("None" before construction)
    self,       \* usage snapshot of the strategy: model + four counters
    pc,         \* position of the caller / of generate_full_response
    frame,      \* locals of the running generate_full_response call
    calls,      \* responses returned by the provider to the current operation
    warnings,   \* number of log_warning calls made by the current operation
    result,     \* value returned by the latest completed operation
    op,         \* name of the latest top-level operation
    query,      \* latest read-only query and what it returned
    stale,      \* the snapshot held non-zero counts when the latest operation began
    requests,   \* requests the current operation handed to the provider, in order
    threads,    \* per caller thread sharing the strategy: its operation and that operation's locals
    exclusive,  \* whether the callers run at most one operation on the strategy at a time
    provider,   \* argument handed to create_strategy
    session_state, \* st.session_state: the llm usage totals and the keys of the page pipeline
    ledger,     \* per-request statistics update_llm_stats returned since the totals were created or reset
    document    \* locals of the running generate_large_document call

vars == <<strategy, self, pc, frame, calls, warnings, result, op, query, stale, requests,
          threads, exclusive, provider,
          session_state, ledger, document>>

None == "None"

(***************************************************************************)
(* Bounds                                                                  *)
(***************************************************************************)
MaxAttempts == 3

(***************************************************************************)
(* Text helpers                                                            *)
(***************************************************************************)
NoneContent == [isNone |-> TRUE, text |-> <<>>]

Text(s) == [isNone |-> FALSE, text |-> s]

\* Python truthiness of an Optional[str]: None and "" are falsy
Truthy(c) == (~c.isNone) /\ c.text # <<>>

\* a variant that renders None as text
OrEmpty_renders_none(c) == IF c.isNone THEN <<"None">> ELSE c.text

\* Python `c or ""`
OrEmpty(c) == IF Truthy(c) THEN c.text ELSE <<>>

Whitespace == {" ", "\n", "\t"}

RECURSIVE lstrip(_)
lstrip(s) ==
    IF s = <<>> THEN s
    ELSE IF Head(s) \in Whitespace THEN lstrip(Tail(s)) ELSE s

RECURSIVE rstrip(_)
rstrip(s) ==
    IF s = <<>> THEN s
    ELSE IF s[Len(s)] \in Whitespace THEN rstrip(SubSeq(s, 1, Len(s) - 1)) ELSE s

\* str.strip()
strip(s) == rstrip(lstrip(s))

LowerAlphabet ==
    <<"a", "b", "c", "d", "e", "f", "g", "h", "i", "j", "k", "l", "m",
      "n", "o", "p", "q", "r", "s", "t", "u", "v", "w", "x", "y", "z">>

UpperAlphabet ==
    <<"A", "B", "C", "D", "E", "F", "G", "H", "I", "J", "K", "L", "M",
      "N", "O", "P", "Q", "R", "S", "T", "U", "V", "W", "X", "Y", "Z">>

LowerChar(ch) ==
    IF \E i \in 1..Len(UpperAlphabet) : UpperAlphabet[i] = ch
    THEN LowerAlphabet[CHOOSE i \in 1..Len(UpperAlphabet) : UpperAlphabet[i] = ch]
    ELSE ch

UpperChar(ch) ==
    IF \E i \in 1..Len(LowerAlphabet) : LowerAlphabet[i] = ch
    THEN UpperAlphabet[CHOOSE i \in 1..Len(LowerAlphabet) : LowerAlphabet[i] = ch]
    ELSE ch

\* str.lower()
lower(s) == [i \in 1..Len(s) |-> LowerChar(s[i])]

(***************************************************************************)
(* Model catalogs (Model objects built in each strategy's __init__)        *)
(***************************************************************************)
Model(name, output_max_tokens, price_input, price_output) ==
    [name |-> name, output_max_tokens |-> output_max_tokens,
     price_input |-> price_input, price_output |-> price_output]

AnthropicModels ==
    << Model("claude-3-7-sonnet-latest", 8192, 300, 1500),
       Model("claude-3-5-sonnet-latest", 8192, 300, 1500),
       Model("claude-3-5-haiku-latest", 4096, 80, 400),
       Model("claude-3-5-sonnet-20240620", 8192, 300, 1500),
       Model("claude-3-opus-latest", 4096, 1500, 7500),
       Model("claude-3-haiku-20240307", 4096, 25, 125) >>

OpenAIModels ==
    << Model("gpt-4.1", 32768, 200, 800),
       Model("gpt-4o", 16384, 250, 1000),
       Model("gpt-4.1-mini", 32768, 40, 160),
       Model("gpt-4o-mini", 16384, 15, 60),
       Model("gpt-4.1-nano", 32768, 10, 40),
       Model("o3-mini", 100000, 110, 440),
       Model("o3", 100000, 1000, 4000),
       Model("o4-mini", 100000, 110, 440),
       Model("o1", 32768, 1500, 6000),
       Model("o1-preview", 32768, 1500, 6000) >>

DeepseekModels ==
    << Model("deepseek-chat", 4096, 14, 28),
       Model("deepseek-reasoner", 4096, 55, 219) >>

Strategies == {"AnthropicChatStrategy", "OpenAIChatStrategy", "DeepseekChatStrategy"}

\* self.models of a constructed strategy
models(s) ==
    CASE s = "AnthropicChatStrategy" -> AnthropicModels
      [] s = "OpenAIChatStrategy" -> OpenAIModels
      [] s = "DeepseekChatStrategy" -> DeepseekModels
      [] OTHER -> <<>>

get_models(s) == [i \in 1..Len(models(s)) |-> models(s)[i].name]

\* list.index(x) for an x that is in the list (1-based here)
Index(names, x) ==
    CHOOSE i \in 1..Len(names) :
        names[i] = x /\ \A j \in 1..(i - 1) : names[j] # x

InList(names, x) == \E i \in 1..Len(names) : names[i] = x

(***************************************************************************)
(* Return values and exceptions of a call                                  *)
(***************************************************************************)
Returned(v) == [raised |-> None, value |-> v]

Raised(e) == [raised |-> e, value |-> 0]

(***************************************************************************)
(* BaseChatModelStrategy: snapshot, accessors, catalog queries             *)
(***************************************************************************)
\* a variant whose constructor leaves a count behind
NewSelf_nonzero ==
    [model |-> None, input_tokens |-> 1, output_tokens |-> 0,
     cache_create_tokens |-> 0, cache_read_tokens |-> 0]

\* BaseChatModelStrategy.__init__
NewSelf ==
    [model |-> None, input_tokens |-> 0, output_tokens |-> 0,
     cache_create_tokens |-> 0, cache_read_tokens |-> 0]

get_input_tokens(slf) == slf.input_tokens

get_output_tokens(slf) == slf.output_tokens

get_cache_create_tokens(slf) == slf.cache_create_tokens

get_cache_read_tokens(slf) == slf.cache_read_tokens

get_output_max_tokens_raises(s, model_name) ==
    IF ~InList(get_models(s), model_name)
    THEN Raised("ValueError")
    ELSE Returned(models(s)[Index(get_models(s), model_name)].output_max_tokens)

get_output_max_tokens(s, model_name) ==
    IF ~InList(get_models(s), model_name)
    THEN IF models(s) = <<>>
         THEN Returned(0)
         ELSE Returned(models(s)[1].output_max_tokens)
    ELSE Returned(models(s)[Index(get_models(s), model_name)].output_max_tokens)

(***************************************************************************)
(* Pricing.  Cost unit: 1e-10 dollars; price unit: cents per million.      *)
(***************************************************************************)
\* tokens * price * multiplier / 1e6 with the multiplier given in percent
\* a variant with a fixed fee on every token kind that was used
Cost_with_fee(tokens, price, percent) ==
    IF tokens > 0 THEN tokens * price * percent + 1 ELSE 0

Cost(tokens, price, percent) == tokens * price * percent

\* a variant that prices cached tokens like plain input tokens
AnthropicPrice_flat(slf) ==
    IF slf.model = None THEN Returned(0)
    ELSE IF ~InList(get_models("AnthropicChatStrategy"), slf.model)
    THEN Raised("ValueError")
    ELSE LET model_info == AnthropicModels[Index(get_models("AnthropicChatStrategy"), slf.model)]
         IN  Returned(Cost(slf.input_tokens + slf.cache_create_tokens + slf.cache_read_tokens,
                           model_info.price_input, 100)
                      + Cost(slf.output_tokens, model_info.price_output, 100))

AnthropicPrice(slf) ==
    IF slf.model = None THEN Returned(0)
    ELSE IF ~InList(get_models("AnthropicChatStrategy"), slf.model)
    THEN Raised("ValueError")
    ELSE LET model_info == AnthropicModels[Index(get_models("AnthropicChatStrategy"), slf.model)]
             inputs == Cost(slf.input_tokens, model_info.price_input, 100)
             outputs == Cost(slf.output_tokens, model_info.price_output, 100)
             cache_create == Cost(slf.cache_create_tokens, model_info.price_input, 125)
             cache_read == Cost(slf.cache_read_tokens, model_info.price_input, 10)
         IN  Returned(inputs + outputs + cache_create + cache_read)

OpenAIPrice(slf) ==
    IF slf.model = None THEN Returned(0)
    ELSE IF ~InList(get_models("OpenAIChatStrategy"), slf.model)
    THEN Raised("ValueError")
    ELSE LET model_info == OpenAIModels[Index(get_models("OpenAIChatStrategy"), slf.model)]
             inputs == Cost(slf.input_tokens, model_info.price_input, 100)
             outputs == Cost(slf.output_tokens, model_info.price_output, 100)
             cache_create == Cost(slf.cache_create_tokens, model_info.price_input, 100)
             cache_read == Cost(slf.cache_read_tokens, model_info.price_input, 50)
         IN  Returned(inputs + outputs + cache_create + cache_read)

\* a variant that gives every model the 90% cache-hit discount
DeepseekPrice_discount(slf) ==
    IF slf.model = None THEN Returned(0)
    ELSE IF ~InList(get_models("DeepseekChatStrategy"), slf.model)
    THEN Raised("ValueError")
    ELSE LET model_info == DeepseekModels[Index(get_models("DeepseekChatStrategy"), slf.model)]
         IN  Returned(Cost(slf.input_tokens + slf.cache_create_tokens,
                           model_info.price_input, 100)
                      + Cost(slf.output_tokens, model_info.price_output, 100)
                      + Cost(slf.cache_read_tokens, model_info.price_input, 10))

DeepseekPrice(slf) ==
    IF slf.model = None THEN Returned(0)
    ELSE IF ~InList(get_models("DeepseekChatStrategy"), slf.model)
    THEN Raised("ValueError")
    ELSE LET model_info == DeepseekModels[Index(get_models("DeepseekChatStrategy"), slf.model)]
             inputs == Cost(slf.input_tokens, model_info.price_input, 100)
             outputs == Cost(slf.output_tokens, model_info.price_output, 100)
             cache_create == Cost(slf.cache_create_tokens, model_info.price_input, 100)
             cache_read ==
                 IF slf.model = "deepseek-reasoner"
                 THEN Cost(slf.cache_read_tokens, 14, 100)
                 ELSE Cost(slf.cache_read_tokens, model_info.price_input, 10)
         IN  Returned(inputs + outputs + cache_create + cache_read)

\* get_full_price as dispatched on the class of the strategy
get_full_price(s, slf) ==
    CASE s = "AnthropicChatStrategy" -> AnthropicPrice(slf)
      [] s = "OpenAIChatStrategy" -> OpenAIPrice(slf)
      [] s = "DeepseekChatStrategy" -> DeepseekPrice(slf)

(***************************************************************************)
(* Strategy factory                                                        *)
(***************************************************************************)
anthropic == <<"a", "n", "t", "h", "r", "o", "p", "i", "c">>

openai == <<"o", "p", "e", "n", "a", "i">>

deepseek == <<"d", "e", "e", "p", "s", "e", "e", "k">>

get_available_providers == <<anthropic, openai, deepseek>>

create_strategy_no_lower(p) ==
    IF p = anthropic THEN Returned("AnthropicChatStrategy")
    ELSE IF p = openai THEN Returned("OpenAIChatStrategy")
    ELSE IF p = deepseek THEN Returned("DeepseekChatStrategy")
    ELSE Raised("ValueError")

create_strategy(p) ==
    LET provider_lower == lower(p)
    IN  IF provider_lower = anthropic THEN Returned("AnthropicChatStrategy")
        ELSE IF provider_lower = openai THEN Returned("OpenAIChatStrategy")
        ELSE IF provider_lower = deepseek THEN Returned("DeepseekChatStrategy")
        ELSE Raised("ValueError")

(***************************************************************************)
(* What the provider can answer: usage blocks, stop reasons, contents      *)
(***************************************************************************)
AnthropicUsages ==
    { [input_tokens |-> 3, output_tokens |-> 1,
       cache_creation_input_tokens |-> 2, cache_read_input_tokens |-> 4],
      [input_tokens |-> 1, output_tokens |-> 2,
       cache_creation_input_tokens |-> 0, cache_read_input_tokens |-> 1],
      [input_tokens |-> 0, output_tokens |-> 0,
       cache_creation_input_tokens |-> 0, cache_read_input_tokens |-> 0] }

OpenAIUsages ==
    { [prompt_tokens |-> 5, completion_tokens |-> 1, cached_tokens |-> 2],
      [prompt_tokens |-> 1, completion_tokens |-> 2, cached_tokens |-> 0],
      [prompt_tokens |-> 3, completion_tokens |-> 0, cached_tokens |-> 3] }

DeepseekUsages ==
    { [prompt_tokens |-> 6, completion_tokens |-> 1,
       prompt_cache_miss_tokens |-> 2, prompt_cache_hit_tokens |-> 1],
      [prompt_tokens |-> 2, completion_tokens |-> 2,
       prompt_cache_miss_tokens |-> 0, prompt_cache_hit_tokens |-> 2],
      [prompt_tokens |-> 1, completion_tokens |-> 0,
       prompt_cache_miss_tokens |-> 1, prompt_cache_hit_tokens |-> 0] }

Usages(s) ==
    CASE s = "AnthropicChatStrategy" -> AnthropicUsages
      [] s = "OpenAIChatStrategy" -> OpenAIUsages
      [] s = "DeepseekChatStrategy" -> DeepseekUsages

StopReasons == {"max_tokens", "length", "stop", None}

Contents ==
    { NoneContent, Text(<<>>), Text(<<"a", " ">>), Text(<<"\n", "b">>) }

\* every content with one usage block, and every usage block with one content
Responses(s) ==
    LET u0 == CHOOSE u \in Usages(s) : TRUE
        c0 == Text(<<"a", " ">>)
        pairs == (Contents \X {u0}) \cup ({c0} \X Usages(s))
    IN  { [content |-> cu[1], finish_reason |-> f, usage |-> cu[2]] :
            cu \in pairs, f \in StopReasons }

\* model names a caller passes: two catalog models and one absent from every catalog
ModelNames(s) ==
    { get_models(s)[1], get_models(s)[Len(get_models(s))], "o1-mini" }

DefaultTemplate == <<"Please continue exactly from where it left off.">>

Templates == { DefaultTemplate, <<"{previous_content}", "+">> }

InitialUserMessages == { <<"q">> }

\* str.format(previous_content=...) on a template
RECURSIVE format(_, _)
format(template, previous_content) ==
    IF template = <<>> THEN <<>>
    ELSE (IF Head(template) = "{previous_content}"
          THEN previous_content ELSE <<Head(template)>>)
         \o format(Tail(template), previous_content)

(***************************************************************************)
(* send_message: the request each class builds for its provider            *)
(***************************************************************************)
\* system prompts, sampling arguments and message lists a caller passes
SystemPrompts == { <<>>, <<"s">> }

MaxTokensArgs == { 4096 }

TemperatureArgs == { 0 }

\* Anthropic: the text block of one message, with or without the cache hint
TextBlock(text, hinted) ==
    [type |-> "text", text |-> text,
     cache_control |-> IF hinted THEN "ephemeral" ELSE None]

\* a variant whose window is the last 8 messages
GetsCacheControl_wide_window(i, message_count, used_cashed_control_breakpoints, role) ==
    /\ (i = 0 \/ i >= message_count - 8)
    /\ used_cashed_control_breakpoints < 4
    /\ role = "user"

\* a variant without the cap on the breakpoints used
GetsCacheControl_no_cap(i, message_count, used_cashed_control_breakpoints, role) ==
    /\ (i = 0 \/ i >= message_count - 6)
    /\ role = "user"

\* Anthropic: `(i == 0 or i >= message_count - 6) and used < 4 and role == "user"`
\* (i is the 0-based index of the message)
GetsCacheControl(i, message_count, used_cashed_control_breakpoints, role) ==
    /\ (i = 0 \/ i >= message_count - 6)
    /\ used_cashed_control_breakpoints < 4
    /\ role = "user"

\* Anthropic: the loop over enumerate(messages), from 0-based index i on
RECURSIVE CashedMessages(_, _, _)
CashedMessages(messages, i, used_cashed_control_breakpoints) ==
    IF i >= Len(messages) THEN <<>>
    ELSE LET message == messages[i + 1]
             hinted == GetsCacheControl(i, Len(messages),
                                        used_cashed_control_breakpoints, message.role)
         IN  << [role |-> message.role,
                 content |-> <<TextBlock(message.content, hinted)>>] >>
             \o CashedMessages(messages, i + 1,
                               IF hinted THEN used_cashed_control_breakpoints + 1
                               ELSE used_cashed_control_breakpoints)

AnthropicRequest(system_prompt, messages, model_name, max_tokens, temperature) ==
    [model |-> model_name,
     system |-> system_prompt,
     messages |-> CashedMessages(messages, 0, 0),
     params |-> [temperature |-> temperature, max_tokens |-> max_tokens, top_p |-> 1]]

\* a variant that prepends the developer message whatever the system prompt
OpenAIFullMessages_always(system_prompt, messages) ==
    << [role |-> "developer", content |-> system_prompt] >> \o messages

\* OpenAI: the developer message is prepended only for a truthy system prompt
OpenAIFullMessages(system_prompt, messages) ==
    (IF system_prompt # <<>>
     THEN << [role |-> "developer", content |-> system_prompt] >>
     ELSE <<>>) \o messages

OpenAIRequest(system_prompt, messages, model_name, max_tokens, temperature) ==
    [model |-> model_name,
     system |-> None,
     messages |-> OpenAIFullMessages(system_prompt, messages),
     params |-> IF model_name \in {"o1-mini", "o3-mini", "o1"}
                THEN [max_completion_tokens |-> max_tokens]
                ELSE [temperature |-> temperature, max_tokens |-> max_tokens,
                      top_p |-> 1, frequency_penalty |-> 0, presence_penalty |-> 0]]

\* Deepseek: the system message is always prepended
DeepseekFullMessages(system_prompt, messages) ==
    << [role |-> "system", content |-> system_prompt] >> \o messages

DeepseekRequest(system_prompt, messages, model_name, max_tokens, temperature) ==
    [model |-> model_name,
     system |-> None,
     messages |-> DeepseekFullMessages(system_prompt, messages),
     params |-> [temperature |-> temperature, max_tokens |-> max_tokens,
                 top_p |-> 1, frequency_penalty |-> 0, presence_penalty |-> 0]]

\* the caller's list after send_message has run: no class writes to it
MessagesAfterCall(s, system_prompt, messages) == messages

\* one send_message call as the provider and the caller see it
BuildRequest(s, system_prompt, messages, model_name, max_tokens, temperature) ==
    [system_prompt |-> system_prompt,
     messages |-> messages,
     messages_after |-> MessagesAfterCall(s, system_prompt, messages),
     api |-> CASE s = "AnthropicChatStrategy" ->
                    AnthropicRequest(system_prompt, messages, model_name,
                                     max_tokens, temperature)
               [] s = "OpenAIChatStrategy" ->
                    OpenAIRequest(system_prompt, messages, model_name,
                                  max_tokens, temperature)
               [] s = "DeepseekChatStrategy" ->
                    DeepseekRequest(system_prompt, messages, model_name,
                                    max_tokens, temperature)]

(***************************************************************************)
(* send_message: the snapshot writes                                       *)
(***************************************************************************)
\* the four counters one response is recorded as, per class
\* a variant that takes the reported prompt tokens as the input tokens
ResponseCounters_raw_prompt(s, usage) ==
    CASE s = "AnthropicChatStrategy" ->
           [input_tokens |-> usage.input_tokens,
            output_tokens |-> usage.output_tokens,
            cache_create_tokens |-> usage.cache_creation_input_tokens,
            cache_read_tokens |-> usage.cache_read_input_tokens]
      [] s = "OpenAIChatStrategy" ->
           [input_tokens |-> usage.prompt_tokens,
            output_tokens |-> usage.completion_tokens,
            cache_create_tokens |-> 0,
            cache_read_tokens |-> usage.cached_tokens]
      [] s = "DeepseekChatStrategy" ->
           [input_tokens |-> usage.prompt_tokens,
            output_tokens |-> usage.completion_tokens,
            cache_create_tokens |-> usage.prompt_cache_miss_tokens,
            cache_read_tokens |-> usage.prompt_cache_hit_tokens]

ResponseCounters(s, usage) ==
    CASE s = "AnthropicChatStrategy" ->
           [input_tokens |-> usage.input_tokens,
            output_tokens |-> usage.output_tokens,
            cache_create_tokens |-> usage.cache_creation_input_tokens,
            cache_read_tokens |-> usage.cache_read_input_tokens]
      [] s = "OpenAIChatStrategy" ->
           [input_tokens |-> usage.prompt_tokens - usage.cached_tokens,
            output_tokens |-> usage.completion_tokens,
            cache_create_tokens |-> 0,
            cache_read_tokens |-> usage.cached_tokens]
      [] s = "DeepseekChatStrategy" ->
           [input_tokens |-> usage.prompt_tokens - usage.prompt_cache_miss_tokens
                               - usage.prompt_cache_hit_tokens,
            output_tokens |-> usage.completion_tokens,
            cache_create_tokens |-> usage.prompt_cache_miss_tokens,
            cache_read_tokens |-> usage.prompt_cache_hit_tokens]

send_message_additive(s, slf, model_name, usage) ==
    LET c == ResponseCounters(s, usage)
    IN  [model |-> model_name,
         input_tokens |-> slf.input_tokens + c.input_tokens,
         output_tokens |-> slf.output_tokens + c.output_tokens,
         cache_create_tokens |-> slf.cache_create_tokens + c.cache_create_tokens,
         cache_read_tokens |-> slf.cache_read_tokens + c.cache_read_tokens]

\* the strategy after a send_message call that the provider answered
send_message(s, slf, model_name, usage) ==
    LET c == ResponseCounters(s, usage)
    IN  [model |-> model_name,
         input_tokens |-> c.input_tokens,
         output_tokens |-> c.output_tokens,
         cache_create_tokens |-> c.cache_create_tokens,
         cache_read_tokens |-> c.cache_read_tokens]

\* the strategy after a send_message call in which the provider call raised
\* a variant that rolls the snapshot back when the call fails
send_message_failed_rolled_back(slf, model_name) == slf

send_message_failed(slf, model_name) == [slf EXCEPT !.model = model_name]

(***************************************************************************)
(* generate_full_response: the pieces of the loop body                     *)
(***************************************************************************)
ZeroCounters ==
    [input_tokens |-> 0, output_tokens |-> 0,
     cache_create_tokens |-> 0, cache_read_tokens |-> 0]

Aggregate_overwrite(aggregated, slf) ==
    [input_tokens |-> get_input_tokens(slf),
     output_tokens |-> get_output_tokens(slf),
     cache_create_tokens |-> get_cache_create_tokens(slf),
     cache_read_tokens |-> get_cache_read_tokens(slf)]

\* aggregated_* += self.get_*()
Aggregate(aggregated, slf) ==
    [input_tokens |-> aggregated.input_tokens + get_input_tokens(slf),
     output_tokens |-> aggregated.output_tokens + get_output_tokens(slf),
     cache_create_tokens |-> aggregated.cache_create_tokens + get_cache_create_tokens(slf),
     cache_read_tokens |-> aggregated.cache_read_tokens + get_cache_read_tokens(slf)]

AppendChunk_prepend(full_response_content, chunk_content) ==
    IF Truthy(chunk_content)
    THEN chunk_content.text \o full_response_content
    ELSE full_response_content

\* if chunk_content: full_response_content += chunk_content
AppendChunk(full_response_content, chunk_content) ==
    IF Truthy(chunk_content)
    THEN full_response_content \o chunk_content.text
    ELSE full_response_content

is_last_attempt_off_by_one(attempt, max_continuation_attempts) ==
    attempt = max_continuation_attempts

is_last_attempt(attempt, max_continuation_attempts) ==
    attempt = max_continuation_attempts - 1

truncated_by_length_one_sentinel(s, finish_reason) == finish_reason = "length"

truncated_by_length(s, finish_reason) ==
    CASE s = "AnthropicChatStrategy" -> finish_reason = "max_tokens"
      [] s = "OpenAIChatStrategy" -> finish_reason = "length"
      [] s = "DeepseekChatStrategy" -> finish_reason = "length"

Continue_missing_not(s, attempt, max_continuation_attempts, finish_reason) ==
    truncated_by_length(s, finish_reason)
    /\ is_last_attempt(attempt, max_continuation_attempts)

\* if truncated_by_length and not is_last_attempt
Continue(s, attempt, max_continuation_attempts, finish_reason) ==
    truncated_by_length(s, finish_reason)
    /\ ~is_last_attempt(attempt, max_continuation_attempts)

\* for attempt in range(max_continuation_attempts): another iteration or fall through
\* a variant that runs the loop body once whatever the limit
LoopHead_at_least_once(attempt, max_continuation_attempts) ==
    IF attempt = 0 \/ attempt < max_continuation_attempts THEN "loop" ELSE "finish"

\* `for attempt in range(max_continuation_attempts)`
LoopHead(attempt, max_continuation_attempts) ==
    IF attempt < max_continuation_attempts THEN "loop" ELSE "finish"

AfterChunk_while_truncated(s, attempt, max_continuation_attempts, finish_reason) ==
    IF truncated_by_length(s, finish_reason) THEN "loop" ELSE "finish"

\* where control goes after one chunk: next iteration, or break
AfterChunk(s, attempt, max_continuation_attempts, finish_reason) ==
    IF Continue(s, attempt, max_continuation_attempts, finish_reason)
    THEN LoopHead(attempt + 1, max_continuation_attempts)
    ELSE "finish"

Message(role, content) == [role |-> role, content |-> content]

EmptyFrame ==
    [system_prompt |-> <<>>, initial_user_message |-> <<>>,
     model_name |-> None, max_tokens |-> 0, temperature |-> 0,
     max_continuation_attempts |-> 0,
     continuation_prompt_template |-> <<>>, attempt |-> 0,
     full_response_content |-> <<>>, current_messages |-> <<>>,
     aggregated |-> ZeroCounters]

\* the snapshot after the loop: the counters are overwritten by the aggregates
FinishSnapshot(slf, aggregated) ==
    [model |-> slf.model,
     input_tokens |-> aggregated.input_tokens,
     output_tokens |-> aggregated.output_tokens,
     cache_create_tokens |-> aggregated.cache_create_tokens,
     cache_read_tokens |-> aggregated.cache_read_tokens]

\* message lists a caller passes to a top-level send_message
SendMessageLists ==
    { << Message("user", <<"q">>) >>,
      << Message("user", <<"q">>), Message("assistant", <<"a">>),
         Message("user", <<"r">>) >> }

NoResult == [content |-> NoneContent, finish_reason |-> None]

NoQuery == [name |-> None, arg |-> None, returned |-> Returned(0)]

Counters(slf) ==
    [input_tokens |-> get_input_tokens(slf),
     output_tokens |-> get_output_tokens(slf),
     cache_create_tokens |-> get_cache_create_tokens(slf),
     cache_read_tokens |-> get_cache_read_tokens(slf)]

HasCounts(slf) == Counters(slf) # ZeroCounters

\* caller threads that share one strategy
Threads == {1, 2}

\* a thread that runs no operation on the strategy
IdleThread ==
    [pc |-> "idle", op |-> None, model_name |-> None,
     max_continuation_attempts |-> 0, attempt |-> 0,
     aggregated |-> ZeroCounters, calls |-> <<>>]

NoThreads == [t \in Threads |-> IdleThread]

(***************************************************************************)
(* utils/llm_stats.py: usage totals of the session                         *)
(***************************************************************************)
\* st.session_state of a session that has run nothing yet: no key is present.  A key of
\* the page pipeline that is absent and one that holds None read the same through
\* get_state, and both are None here.
EmptySession ==
    [has_totals |-> FALSE,
     total_llm_cost |-> 0, total_input_tokens |-> 0, total_output_tokens |-> 0,
     total_cache_create_tokens |-> 0, total_cache_read_tokens |-> 0, total_calls |-> 0,
     file_status |-> None, file_path |-> None, file_size |-> None,
     transcript_text |-> None, speaker_stats |-> None, analysis_results |-> None,
     speaker_updated_transcript |-> None, correction_results |-> None,
     corrected_transcript |-> None, transcript_document |-> None,
     transcript_document_path |-> None, meeting_summary |-> None,
     meeting_summary_path |-> None, llm_settings |-> None]

\* the six totals set to zero
ZeroTotals(ss) ==
    [ss EXCEPT !.has_totals = TRUE,
               !.total_llm_cost = 0, !.total_input_tokens = 0,
               !.total_output_tokens = 0, !.total_cache_create_tokens = 0,
               !.total_cache_read_tokens = 0, !.total_calls = 0]

initialize_llm_stats(ss) == IF ~ss.has_totals THEN ZeroTotals(ss) ELSE ss

\* the dictionary update_llm_stats builds from the strategy's accessors
llm_stats(s, slf, model_name) ==
    [input_tokens |-> get_input_tokens(slf),
     output_tokens |-> get_output_tokens(slf),
     cache_create_tokens |-> get_cache_create_tokens(slf),
     cache_read_tokens |-> get_cache_read_tokens(slf),
     full_price |-> get_full_price(s, slf).value,
     model |-> model_name]

\* a variant that counts two calls per update
AddToTotals_double_count(ss, stats) ==
    [ss EXCEPT !.total_llm_cost = @ + stats.full_price,
               !.total_input_tokens = @ + stats.input_tokens,
               !.total_output_tokens = @ + stats.output_tokens,
               !.total_cache_create_tokens = @ + stats.cache_create_tokens,
               !.total_cache_read_tokens = @ + stats.cache_read_tokens,
               !.total_calls = @ + 2]

AddToTotals(ss, stats) ==
    [ss EXCEPT !.total_llm_cost = @ + stats.full_price,
               !.total_input_tokens = @ + stats.input_tokens,
               !.total_output_tokens = @ + stats.output_tokens,
               !.total_cache_create_tokens = @ + stats.cache_create_tokens,
               !.total_cache_read_tokens = @ + stats.cache_read_tokens,
               !.total_calls = @ + 1]

\* get_full_price raises inside update_llm_stats before any total is written
update_llm_stats_raises(s, slf) == get_full_price(s, slf).raised # None

\* the session after update_llm_stats: initialized, and the request added unless
\* get_full_price raised
update_llm_stats(s, slf, model_name, ss) ==
    IF update_llm_stats_raises(s, slf)
    THEN initialize_llm_stats(ss)
    ELSE AddToTotals(initialize_llm_stats(ss), llm_stats(s, slf, model_name))

reset_llm_stats(ss) == ZeroTotals(ss)

(***************************************************************************)
(* utils/document_generation.py: generate_large_document                   *)
(***************************************************************************)
\* what send_message returns: the tuple (content, finish_reason).  A value is a string
\* exactly when it has the field text.
TupleValue(content, finish_reason) ==
    [isNone |-> FALSE, tuple |-> <<content, finish_reason>>]

\* no generate_large_document call is running.  Beside the locals the record counts the
\* send_message calls made (sends), those an exception left (raised_sends), those made
\* for the current chunk (attempts), the update_llm_stats calls that returned (updates),
\* and keeps the contents answered to the requests that were not retried (parts).
NoDocument ==
    [model_name |-> None, continuation_data |-> <<>>, max_retries |-> 0,
     current_document |-> NoneContent, chunk |-> 0, retry_count |-> 0,
     success |-> FALSE, sends |-> 0, raised_sends |-> 0, updates |-> 0, attempts |-> 0,
     parts |-> <<>>, returned |-> [done |-> FALSE, value |-> NoneContent]]

\* default_return of the safe_operation call (one atom stands for the literal)
DefaultReturn == Text(<<"# default_return">>)

\* the notice appended when a chunk ran out of retries (one atom stands for the literal)
FailureNotice == <<"\n\n", "*notice*">>

\* how much of the document a continuation request quotes
TailLength == 2000

\* the f-string of the continuation request.  It quotes current_document[-2000:]: the
\* last characters of a string, the whole of a 2-tuple, printed as Python prints it
ContinuationMessage(continuation_instruction, current_document, data_chunk) ==
    LET n == Len(current_document.text)
        quoted == IF "text" \in DOMAIN current_document
                  THEN IF n <= TailLength THEN current_document.text
                       ELSE SubSeq(current_document.text, n - TailLength + 1, n)
                  ELSE <<"(">>
                       \o (IF current_document.tuple[1].isNone THEN <<"None">>
                           ELSE <<"'">> \o current_document.tuple[1].text \o <<"'">>)
                       \o <<", ", "'", current_document.tuple[2], "'", ")">>
    IN  continuation_instruction \o <<"\n\n", "previous:", "\n">> \o quoted
            \o <<"\n\n", "data:", "\n">> \o data_chunk

\* generate_large_document returns: the value of _generate_large_document_impl, or
\* default_return when an exception left it and safe_operation caught it
ReturnDocument(doc, value) ==
    [doc EXCEPT !.returned = [done |-> TRUE, value |-> value]]

\* the for loop takes the next data chunk, or the function returns the document
NextChunk(doc) ==
    IF doc.chunk = Len(doc.continuation_data)
    THEN ReturnDocument(doc, doc.current_document)
    ELSE [doc EXCEPT !.chunk = @ + 1, !.retry_count = 0, !.success = FALSE,
                    !.attempts = 0]

\* after the initial request: no data, or a while loop that never runs for any chunk,
\* returns the document; otherwise the first chunk is taken
EnterLoop(doc) ==
    IF doc.continuation_data = <<>> \/ doc.max_retries <= 0
    THEN ReturnDocument(doc, doc.current_document)
    ELSE [doc EXCEPT !.chunk = 1, !.retry_count = 0, !.success = FALSE, !.attempts = 0]

\* a variant that starts the chunk over without counting the failure
Except_uncounted(doc) == doc

\* the except branch of the retry loop.  On the last retry the notice is added to the
\* document with +=, which raises TypeError unless the document is a string, and that
\* exception leaves the function
Except(doc) ==
    LET retry_count == doc.retry_count + 1
    IN  IF retry_count >= doc.max_retries
        THEN IF "text" \notin DOMAIN doc.current_document
             THEN ReturnDocument([doc EXCEPT !.retry_count = retry_count], DefaultReturn)
             ELSE NextChunk([doc EXCEPT !.retry_count = retry_count,
                                        !.current_document =
                                            Text(@.text \o FailureNotice)])
        ELSE [doc EXCEPT !.retry_count = retry_count]

\* current_document += "\n" + continuation for a continuation that is a string: the
\* chunk is done
AppendContinuation(doc, continuation) ==
    NextChunk([doc EXCEPT !.current_document =
                              Text(@.text \o <<"\n">> \o continuation.text),
                          !.parts = Append(@, continuation),
                          !.success = TRUE])

\* the statements after update_llm_stats in the try block: "\n" + continuation raises
\* TypeError unless the continuation is a string
AfterUpdate(doc, continuation) ==
    IF "text" \in DOMAIN continuation /\ "text" \in DOMAIN doc.current_document
    THEN AppendContinuation(doc, continuation)
    ELSE Except(doc)

(***************************************************************************)
(* Initial states                                                          *)
(***************************************************************************)
\* a strategy freshly built by the factory for one of the listed providers
Init ==
    /\ \E i \in 1..Len(get_available_providers) :
         /\ provider = get_available_providers[i]
         /\ strategy = create_strategy(get_available_providers[i]).value
    /\ self = NewSelf
    /\ pc = "idle"
    /\ frame = EmptyFrame
    /\ calls = <<>>
    /\ warnings = 0
    /\ result = NoResult
    /\ op = None
    /\ query = NoQuery
    /\ stale = FALSE
    /\ requests = <<>>
    /\ threads = NoThreads
    /\ exclusive = TRUE
    /\ session_state = EmptySession
    /\ ledger = <<>>
    /\ document = NoDocument

(***************************************************************************)
(* Top-level send_message                                                  *)
(***************************************************************************)
\* send_message with its arguments drawn from the given sets, the provider answering
SendMessageReturns(system_prompts, message_lists, model_names, responses) ==
    /\ pc = "idle"
    /\ \E system_prompt \in system_prompts, messages \in message_lists,
          model_name \in model_names, response \in responses,
          max_tokens \in MaxTokensArgs, temperature \in TemperatureArgs :
         /\ self' = send_message(strategy, self, model_name, response.usage)
         /\ requests' = << BuildRequest(strategy, system_prompt, messages, model_name,
                                        max_tokens, temperature) >>
         /\ calls' = <<response>>
         /\ result' = [content |-> response.content,
                       finish_reason |-> response.finish_reason]
    /\ pc' = "done"
    /\ op' = "send_message"
    /\ frame' = EmptyFrame
    /\ warnings' = 0
    /\ query' = NoQuery
    /\ stale' = HasCounts(self)
    /\ UNCHANGED <<strategy, provider, threads, exclusive, session_state, ledger, document>>

SendMessageOk ==
    SendMessageReturns(SystemPrompts, SendMessageLists, ModelNames(strategy),
                       Responses(strategy))

\* send_message with its arguments drawn from the given sets, the provider call raising:
\* the model name is already written, the counters are not
SendMessageRaises(system_prompts, message_lists, model_names) ==
    /\ pc = "idle"
    /\ \E system_prompt \in system_prompts, messages \in message_lists,
          model_name \in model_names,
          max_tokens \in MaxTokensArgs, temperature \in TemperatureArgs :
         /\ self' = send_message_failed(self, model_name)
         /\ requests' = << BuildRequest(strategy, system_prompt, messages, model_name,
                                        max_tokens, temperature) >>
    /\ calls' = <<>>
    /\ result' = NoResult
    /\ pc' = "raised"
    /\ op' = "send_message"
    /\ frame' = EmptyFrame
    /\ warnings' = 0
    /\ query' = NoQuery
    /\ stale' = HasCounts(self)
    /\ UNCHANGED <<strategy, provider, threads, exclusive, session_state, ledger, document>>

SendMessageFail ==
    SendMessageRaises(SystemPrompts, SendMessageLists, ModelNames(strategy))

(***************************************************************************)
(* generate_full_response                                                  *)
(***************************************************************************)
\* system prompts and continuation templates a caller passes: no system prompt with
\* the default template, a system prompt with a template of its own
GfrPrompts == { << <<>>, DefaultTemplate >>, << <<"s">>, <<"{previous_content}", "+">> >> }

\* entry up to the head of the for loop, the model name and the attempt limit drawn
\* from the given sets
GfrStarts(model_names, attempt_limits) ==
    /\ pc = "idle"
    /\ \E prompts \in GfrPrompts,
          model_name \in model_names,
          max_continuation_attempts \in attempt_limits,
          initial_user_message \in InitialUserMessages,
          max_tokens \in MaxTokensArgs, temperature \in TemperatureArgs :
         LET system_prompt == prompts[1]
             template == prompts[2]
         IN
         /\ self' = [self EXCEPT !.model = model_name]
         /\ frame' = [system_prompt |-> system_prompt,
                      initial_user_message |-> initial_user_message,
                      model_name |-> model_name,
                      max_tokens |-> max_tokens,
                      temperature |-> temperature,
                      max_continuation_attempts |-> max_continuation_attempts,
                      continuation_prompt_template |-> template,
                      attempt |-> 0,
                      full_response_content |-> <<>>,
                      current_messages |-> <<Message("user", initial_user_message)>>,
                      aggregated |-> ZeroCounters]
         /\ pc' = LoopHead(0, max_continuation_attempts)
    /\ calls' = <<>>
    /\ requests' = <<>>
    /\ warnings' = 0
    /\ result' = NoResult
    /\ op' = "generate_full_response"
    /\ query' = NoQuery
    /\ stale' = HasCounts(self)
    /\ UNCHANGED <<strategy, provider, threads, exclusive, session_state, ledger, document>>

GfrStart == GfrStarts(ModelNames(strategy), (-1)..MaxAttempts)

\* a variant that starts the conversation over with the continuation prompt alone
ExtendConversation_restarts(current_messages, continuation_prompt_template, chunk_content) ==
    << Message("user", format(continuation_prompt_template, OrEmpty(chunk_content))) >>

\* the two appends of the continuation branch
ExtendConversation(current_messages, continuation_prompt_template, chunk_content) ==
    current_messages
        \o << Message("assistant", OrEmpty(chunk_content)),
              Message("user", format(continuation_prompt_template, OrEmpty(chunk_content))) >>

\* the send_message call of the current iteration: it is handed a copy of the conversation
GfrRequest ==
    BuildRequest(strategy, frame.system_prompt, frame.current_messages,
                 frame.model_name, frame.max_tokens, frame.temperature)

\* one iteration of the loop in which send_message returns one of the given responses
GfrChunks(responses, most_calls) ==
    /\ pc = "loop"
    /\ Len(calls) <= most_calls
    /\ \E response \in responses :
         LET sent == send_message(strategy, self, frame.model_name, response.usage)
             chunk_content == response.content
             finish_reason == response.finish_reason
             attempt == frame.attempt
             max_continuation_attempts == frame.max_continuation_attempts
             continues == Continue(strategy, attempt, max_continuation_attempts,
                                   finish_reason)
             warns == (~continues)
                      /\ truncated_by_length(strategy, finish_reason)
                      /\ is_last_attempt(attempt, max_continuation_attempts)
         IN  /\ self' = sent
             /\ frame' =
                  [frame EXCEPT
                     !.aggregated = Aggregate(@, sent),
                     !.full_response_content = AppendChunk(@, chunk_content),
                     !.current_messages =
                        IF continues
                        THEN ExtendConversation(@, frame.continuation_prompt_template,
                                                chunk_content)
                        ELSE @,
                     !.attempt = IF continues THEN @ + 1 ELSE @]
             /\ warnings' = IF warns THEN warnings + 1 ELSE warnings
             /\ pc' = AfterChunk(strategy, attempt, max_continuation_attempts,
                                 finish_reason)
             /\ calls' = Append(calls, response)
             /\ requests' = Append(requests, GfrRequest)
    /\ UNCHANGED <<strategy, result, op, query, stale, provider, threads, exclusive, session_state, ledger, document>>

GfrChunk == GfrChunks(Responses(strategy), MaxAttempts)

\* one iteration of the loop in which send_message raises: nothing catches it
GfrChunkFail_retried ==
    /\ pc = "loop"
    /\ Len(requests) <= MaxAttempts
    /\ self' = send_message_failed(self, frame.model_name)
    /\ requests' = Append(requests, GfrRequest)
    /\ pc' = "loop"
    /\ UNCHANGED <<strategy, frame, calls, warnings, result, op, query, stale, provider, threads, exclusive, session_state, ledger, document>>

\* a variant that writes the aggregates gathered so far before the error leaves
GfrChunkFail_keeps_partial ==
    /\ pc = "loop"
    /\ self' = FinishSnapshot(send_message_failed(self, frame.model_name), frame.aggregated)
    /\ requests' = Append(requests, GfrRequest)
    /\ pc' = "raised"
    /\ UNCHANGED <<strategy, frame, calls, warnings, result, op, query, stale, provider, threads, exclusive, session_state, ledger, document>>

GfrChunkFail ==
    /\ pc = "loop"
    /\ self' = send_message_failed(self, frame.model_name)
    /\ requests' = Append(requests, GfrRequest)
    /\ pc' = "raised"
    /\ UNCHANGED <<strategy, frame, calls, warnings, result, op, query, stale, provider, threads, exclusive, session_state, ledger, document>>

\* after the loop: the snapshot is overwritten by the aggregates, the text returned
GfrFinish ==
    /\ pc = "finish"
    /\ self' = FinishSnapshot(self, frame.aggregated)
    /\ result' = [content |-> Text(strip(frame.full_response_content)),
                  finish_reason |-> None]
    /\ pc' = "done"
    /\ UNCHANGED <<strategy, frame, calls, warnings, op, query, stale, requests, provider, threads, exclusive, session_state, ledger, document>>

\* the operation hands its result (or its exception) to the caller; its locals are gone
Return ==
    /\ pc \in {"done", "raised"}
    /\ pc' = "idle"
    /\ frame' = EmptyFrame
    /\ calls' = <<>>
    /\ requests' = <<>>
    /\ warnings' = 0
    /\ result' = NoResult
    /\ UNCHANGED <<strategy, self, op, query, stale, provider, threads, exclusive, session_state, ledger, document>>

(***************************************************************************)
(* Read-only queries a caller makes between operations                     *)
(***************************************************************************)
QueryModelNames(s) ==
    { get_models(s)[i] : i \in 1..Len(get_models(s)) } \cup { "o1-mini", "" }

GetOutputMaxTokens ==
    /\ pc = "idle"
    /\ \E model_name \in QueryModelNames(strategy) :
         query' = [name |-> "get_output_max_tokens", arg |-> model_name,
                   returned |-> get_output_max_tokens(strategy, model_name)]
    /\ UNCHANGED <<strategy, self, pc, frame, calls, warnings, result, op, stale, requests,
                   provider, threads, exclusive, session_state, ledger, document>>

\* a variant that clears the counters once the cost is computed
GetFullPrice_resets ==
    /\ pc = "idle"
    /\ query' = [name |-> "get_full_price", arg |-> None,
                 returned |-> get_full_price(strategy, self)]
    /\ self' = [NewSelf EXCEPT !.model = self.model]
    /\ UNCHANGED <<strategy, pc, frame, calls, warnings, result, op, stale, requests,
                   provider, threads, exclusive, session_state, ledger, document>>

GetFullPrice ==
    /\ pc = "idle"
    /\ query' = [name |-> "get_full_price", arg |-> None,
                 returned |-> get_full_price(strategy, self)]
    /\ UNCHANGED <<strategy, self, pc, frame, calls, warnings, result, op, stale, requests,
                   provider, threads, exclusive, session_state, ledger, document>>

GetModels ==
    /\ pc = "idle"
    /\ query' = [name |-> "get_models", arg |-> None,
                 returned |-> Returned(get_models(strategy))]
    /\ UNCHANGED <<strategy, self, pc, frame, calls, warnings, result, op, stale, requests,
                   provider, threads, exclusive, session_state, ledger, document>>

GetInputTokens ==
    /\ pc = "idle"
    /\ query' = [name |-> "get_input_tokens", arg |-> None,
                 returned |-> Returned(get_input_tokens(self))]
    /\ UNCHANGED <<strategy, self, pc, frame, calls, warnings, result, op, stale, requests,
                   provider, threads, exclusive, session_state, ledger, document>>

GetOutputTokens ==
    /\ pc = "idle"
    /\ query' = [name |-> "get_output_tokens", arg |-> None,
                 returned |-> Returned(get_output_tokens(self))]
    /\ UNCHANGED <<strategy, self, pc, frame, calls, warnings, result, op, stale, requests,
                   provider, threads, exclusive, session_state, ledger, document>>

GetCacheCreateTokens ==
    /\ pc = "idle"
    /\ query' = [name |-> "get_cache_create_tokens", arg |-> None,
                 returned |-> Returned(get_cache_create_tokens(self))]
    /\ UNCHANGED <<strategy, self, pc, frame, calls, warnings, result, op, stale, requests,
                   provider, threads, exclusive, session_state, ledger, document>>

GetCacheReadTokens ==
    /\ pc = "idle"
    /\ query' = [name |-> "get_cache_read_tokens", arg |-> None,
                 returned |-> Returned(get_cache_read_tokens(self))]
    /\ UNCHANGED <<strategy, self, pc, frame, calls, warnings, result, op, stale, requests,
                   provider, threads, exclusive, session_state, ledger, document>>

Next ==
    \/ SendMessageOk
    \/ SendMessageFail
    \/ GfrStart
    \/ GfrChunk
    \/ GfrChunkFail
    \/ GfrFinish
    \/ Return
    \/ GetOutputMaxTokens
    \/ GetFullPrice
    \/ GetModels
    \/ GetInputTokens
    \/ GetOutputTokens
    \/ GetCacheCreateTokens
    \/ GetCacheReadTokens

Spec == Init /\ [][Next]_vars

(***************************************************************************)
(* The factory on its own: any identifier a caller may pass                *)
(***************************************************************************)
CaseVariants(name) ==
    { [i \in 1..Len(name) |-> IF i \in upper THEN UpperChar(name[i]) ELSE name[i]] :
        upper \in SUBSET (1..Len(name)) }

OtherIds ==
    { <<"u", "n", "k", "n", "o", "w", "n", "-", "v", "e", "n", "d", "o", "r">>,
      <<>>,
      <<" ", "o", "p", "e", "n", "a", "i">>,
      <<"o", "p", "e", "n", "a", "i", " ">>,
      <<"a", "n", "t", "h", "r", "o", "p", "i">>,
      <<"d", "e", "e", "p", "s", "e", "e", "k", "k">>,
      <<"c", "l", "a", "u", "d", "e">>,
      <<"o", "p", "e", "n", "-", "a", "i">>,
      <<"g", "p", "t">>,
      <<"D", "e", "e", "p", "s", "e", "e", "k", "-", "l", "i", "k", "e">>,
      <<"O", "P", "E", "N", "A", "I", "2">>,
      <<"a", "n", "t", "h", "r", "o", "p", "i", "c", "o", "p", "e", "n", "a", "i">> }

ProviderIds ==
    CaseVariants(anthropic) \cup CaseVariants(openai) \cup CaseVariants(deepseek)
        \cup OtherIds

InitFactory ==
    /\ provider = <<>>
    /\ strategy = None
    /\ self = NewSelf
    /\ pc = "factory"
    /\ frame = EmptyFrame
    /\ calls = <<>>
    /\ warnings = 0
    /\ result = NoResult
    /\ op = None
    /\ query = NoQuery
    /\ stale = FALSE
    /\ requests = <<>>
    /\ threads = NoThreads
    /\ exclusive = TRUE
    /\ session_state = EmptySession
    /\ ledger = <<>>
    /\ document = NoDocument

GetAvailableProviders ==
    /\ pc = "factory"
    /\ query' = [name |-> "get_available_providers", arg |-> None,
                 returned |-> Returned(get_available_providers)]
    /\ UNCHANGED <<strategy, self, pc, frame, calls, warnings, result, op, stale, requests,
                   provider, threads, exclusive, session_state, ledger, document>>

\* create_strategy(provider, api_key); __init__ of the class it picks
CreateStrategy ==
    /\ pc = "factory"
    /\ \E p \in ProviderIds :
         LET created == create_strategy(p)
         IN  /\ provider' = p
             /\ strategy' = IF created.raised = None THEN created.value ELSE None
             /\ pc' = IF created.raised = None THEN "idle" ELSE "raised"
    /\ self' = NewSelf
    /\ op' = "create_strategy"
    /\ UNCHANGED <<frame, calls, warnings, result, query, stale, requests, threads, exclusive, session_state, ledger, document>>

\* the factory, then the queries a caller makes of the strategy it was handed
NextFactory ==
    \/ GetAvailableProviders
    \/ CreateStrategy
    \/ GetFullPrice
    \/ GetModels
    \/ GetInputTokens
    \/ GetOutputTokens
    \/ GetCacheCreateTokens
    \/ GetCacheReadTokens

SpecFactory == InitFactory /\ [][NextFactory]_vars

(***************************************************************************)
(* send_message on its own: any message list a caller may pass             *)
(***************************************************************************)
MaxMessages == 8

Roles == {"user", "assistant"}

\* every list of up to MaxMessages messages, the j-th message carrying the text j
MessageLists ==
    UNION { { [j \in 1..n |-> Message(roles[j], <<ToString(j)>>)] : roles \in [1..n -> Roles] } :
              n \in 0..MaxMessages }

ShapeSendMessageOk ==
    SendMessageReturns(SystemPrompts, MessageLists, {get_models(strategy)[1]},
                       {CHOOSE response \in Responses(strategy) : TRUE})

ShapeSendMessageFail ==
    SendMessageRaises(SystemPrompts, MessageLists, {get_models(strategy)[1]})

NextShape ==
    \/ ShapeSendMessageOk
    \/ ShapeSendMessageFail
    \/ Return

SpecShape == Init /\ [][NextShape]_vars

(***************************************************************************)
(* generate_full_response over many continuation rounds                    *)
(***************************************************************************)
MaxRounds == 5

\* the provider answers with text, truncated or not
RoundResponses(s) ==
    { [content |-> Text(<<"a", " ">>), finish_reason |-> f,
       usage |-> CHOOSE u \in Usages(s) : TRUE] : f \in {"max_tokens", "length", "stop"} }

RoundsGfrStart == GfrStarts({get_models(strategy)[1]}, 1..MaxRounds)

RoundsGfrChunk == GfrChunks(RoundResponses(strategy), MaxRounds)

NextRounds ==
    \/ RoundsGfrStart
    \/ RoundsGfrChunk
    \/ GfrChunkFail
    \/ GfrFinish
    \/ Return

SpecRounds == Init /\ [][NextRounds]_vars

(***************************************************************************)
(* get_full_price on its own: any snapshot the counters can hold           *)
(***************************************************************************)
\* values of one token counter
TokenCounts == {0, 200, 500, 1000}

\* values of self.model: unset, every catalog name, a name absent from every catalog
SnapshotModels(s) ==
    { get_models(s)[i] : i \in 1..Len(get_models(s)) } \cup { None, "o1-mini" }

InitPrice ==
    /\ \E i \in 1..Len(get_available_providers) :
         /\ provider = get_available_providers[i]
         /\ strategy = create_strategy(get_available_providers[i]).value
    /\ \E model \in SnapshotModels(strategy),
          input_tokens \in TokenCounts, output_tokens \in TokenCounts,
          cache_create_tokens \in TokenCounts, cache_read_tokens \in TokenCounts :
         self = [model |-> model,
                 input_tokens |-> input_tokens,
                 output_tokens |-> output_tokens,
                 cache_create_tokens |-> cache_create_tokens,
                 cache_read_tokens |-> cache_read_tokens]
    /\ pc = "idle"
    /\ frame = EmptyFrame
    /\ calls = <<>>
    /\ warnings = 0
    /\ result = NoResult
    /\ op = None
    /\ query = NoQuery
    /\ stale = FALSE
    /\ requests = <<>>
    /\ threads = NoThreads
    /\ exclusive = TRUE
    /\ session_state = EmptySession
    /\ ledger = <<>>
    /\ document = NoDocument

NextPrice ==
    \/ GetFullPrice
    \/ GetModels

SpecPrice == InitPrice /\ [][NextPrice]_vars

(***************************************************************************)
(* Two caller threads on one strategy.  The classes hold no lock: the      *)
(* snapshot is plain instance state, written by send_message and by the    *)
(* end of generate_full_response and read back by the loop.  A step is one *)
(* run of statements between two points at which the other thread can be  *)
(* scheduled: the provider call blocks, and the four assignments (or four  *)
(* reads) of one block are taken together.  The texts and the              *)
(* conversation are locals of the call and are left out.                   *)
(***************************************************************************)
MaxThreadAttempts == 2

\* answers that carry text: a usage block with output tokens, either length sentinel
ThreadResponses(s) ==
    { [content |-> Text(<<"a", " ">>), finish_reason |-> f, usage |-> u] :
        f \in {"max_tokens", "length"},
        u \in { v \in Usages(s) : ResponseCounters(s, v).output_tokens > 0 } }

\* a variant in which an operation starts whatever the other thread is doing
MayStart_unguarded(t) == threads[t].pc = "idle"

\* thread t may enter an operation: callers that serialise their operations wait
\* for the other thread to be out of the strategy
MayStart(t) ==
    /\ threads[t].pc = "idle"
    /\ exclusive => \A u \in Threads \ {t} : threads[u].pc \in {"idle", "returned"}

InitConcurrent ==
    /\ \E i \in 1..Len(get_available_providers) :
         /\ provider = get_available_providers[i]
         /\ strategy = create_strategy(get_available_providers[i]).value
    /\ self = NewSelf
    /\ pc = "threads"
    /\ frame = EmptyFrame
    /\ calls = <<>>
    /\ warnings = 0
    /\ result = NoResult
    /\ op = None
    /\ query = NoQuery
    /\ stale = FALSE
    /\ requests = <<>>
    /\ threads = NoThreads
    /\ exclusive \in BOOLEAN
    /\ session_state = EmptySession
    /\ ledger = <<>>
    /\ document = NoDocument

\* send_message up to the provider call: the model name is written
ThreadSendMessage(t) ==
    /\ MayStart(t)
    /\ self' = [self EXCEPT !.model = get_models(strategy)[1]]
    /\ threads' = [threads EXCEPT ![t] =
                      [IdleThread EXCEPT !.pc = "sending", !.op = "send_message",
                                         !.model_name = get_models(strategy)[1]]]
    /\ UNCHANGED <<strategy, pc, frame, calls, warnings, result, op, query, stale, requests,
                   exclusive, provider, session_state, ledger, document>>

\* the provider answers: the four counters are written
ThreadSendMessageReturns(t) ==
    /\ threads[t].pc = "sending"
    /\ \E response \in ThreadResponses(strategy) :
         /\ self' = send_message(strategy, self, self.model, response.usage)
         /\ threads' = [threads EXCEPT ![t].pc = "done",
                                       ![t].calls = Append(@, response)]
    /\ UNCHANGED <<strategy, pc, frame, calls, warnings, result, op, query, stale, requests,
                   exclusive, provider, session_state, ledger, document>>

\* the provider call raises
ThreadCallRaises(t) ==
    /\ threads[t].pc \in {"sending", "calling"}
    /\ threads' = [threads EXCEPT ![t].pc = "raised"]
    /\ UNCHANGED <<strategy, self, pc, frame, calls, warnings, result, op, query, stale,
                   requests, exclusive, provider, session_state, ledger, document>>

\* generate_full_response up to the head of the for loop
ThreadGfrStart(t) ==
    /\ MayStart(t)
    /\ \E max_continuation_attempts \in 0..MaxThreadAttempts :
         threads' = [threads EXCEPT ![t] =
                       [IdleThread EXCEPT
                          !.pc = LoopHead(0, max_continuation_attempts),
                          !.op = "generate_full_response",
                          !.model_name = get_models(strategy)[1],
                          !.max_continuation_attempts = max_continuation_attempts]]
    /\ self' = [self EXCEPT !.model = get_models(strategy)[1]]
    /\ UNCHANGED <<strategy, pc, frame, calls, warnings, result, op, query, stale, requests,
                   exclusive, provider, session_state, ledger, document>>

\* an iteration enters send_message, up to the provider call
ThreadGfrCall(t) ==
    /\ threads[t].pc = "loop"
    /\ self' = [self EXCEPT !.model = threads[t].model_name]
    /\ threads' = [threads EXCEPT ![t].pc = "calling"]
    /\ UNCHANGED <<strategy, pc, frame, calls, warnings, result, op, query, stale, requests,
                   exclusive, provider, session_state, ledger, document>>

\* the provider answers: send_message writes the four counters and returns
ThreadGfrCallReturns(t) ==
    /\ threads[t].pc = "calling"
    /\ \E response \in ThreadResponses(strategy) :
         /\ self' = send_message(strategy, self, self.model, response.usage)
         /\ threads' = [threads EXCEPT ![t].pc = "aggregate",
                                       ![t].calls = Append(@, response)]
    /\ UNCHANGED <<strategy, pc, frame, calls, warnings, result, op, query, stale, requests,
                   exclusive, provider, session_state, ledger, document>>

\* the loop body after the call: the snapshot is read into the aggregates, then the
\* loop continues or is left
ThreadGfrAggregate(t) ==
    /\ threads[t].pc = "aggregate"
    /\ LET th == threads[t]
           finish_reason == th.calls[Len(th.calls)].finish_reason
           continues == Continue(strategy, th.attempt, th.max_continuation_attempts,
                                 finish_reason)
       IN  threads' = [threads EXCEPT
                         ![t].aggregated = Aggregate(@, self),
                         ![t].attempt = IF continues THEN @ + 1 ELSE @,
                         ![t].pc = AfterChunk(strategy, th.attempt,
                                              th.max_continuation_attempts, finish_reason)]
    /\ UNCHANGED <<strategy, self, pc, frame, calls, warnings, result, op, query, stale,
                   requests, exclusive, provider, session_state, ledger, document>>

\* after the loop: the counters are overwritten by the aggregates
ThreadGfrFinish(t) ==
    /\ threads[t].pc = "finish"
    /\ self' = FinishSnapshot(self, threads[t].aggregated)
    /\ threads' = [threads EXCEPT ![t].pc = "done"]
    /\ UNCHANGED <<strategy, pc, frame, calls, warnings, result, op, query, stale, requests,
                   exclusive, provider, session_state, ledger, document>>

\* the operation returns to its thread (or raises into it); each thread runs one operation
ThreadReturn(t) ==
    /\ threads[t].pc \in {"done", "raised"}
    /\ threads' = [threads EXCEPT ![t] = [IdleThread EXCEPT !.pc = "returned"]]
    /\ UNCHANGED <<strategy, self, pc, frame, calls, warnings, result, op, query, stale,
                   requests, exclusive, provider, session_state, ledger, document>>

NextConcurrent ==
    \/ \E t \in Threads : ThreadSendMessage(t)
    \/ \E t \in Threads : ThreadSendMessageReturns(t)
    \/ \E t \in Threads : ThreadCallRaises(t)
    \/ \E t \in Threads : ThreadGfrStart(t)
    \/ \E t \in Threads : ThreadGfrCall(t)
    \/ \E t \in Threads : ThreadGfrCallReturns(t)
    \/ \E t \in Threads : ThreadGfrAggregate(t)
    \/ \E t \in Threads : ThreadGfrFinish(t)
    \/ \E t \in Threads : ThreadReturn(t)

SpecConcurrent == InitConcurrent /\ [][NextConcurrent]_vars

(***************************************************************************)
(* Fairness: the code runs sequentially, so a started                      *)
(* generate_full_response keeps executing: each provider call returns or   *)
(* raises, and the code after the loop runs.                               *)
(***************************************************************************)
\* generate_full_response called over and over on one strategy, for one model
FairGfrStart == GfrStarts({get_models(strategy)[1]}, (-1)..MaxAttempts)

NextGfr ==
    \/ FairGfrStart
    \/ GfrChunk
    \/ GfrChunkFail
    \/ GfrFinish
    \/ Return

FairSpec ==
    /\ Init
    /\ [][NextGfr]_vars
    /\ WF_vars(GfrChunk \/ GfrChunkFail)
    /\ WF_vars(GfrFinish)

(***************************************************************************)
(* The session totals across requests                                      *)
(***************************************************************************)
\* how many requests are added to the totals before a reset
MaxUpdates == 3

\* a request for a catalog model or for a name absent from every catalog, whose answers
\* differ in their usage block only
StatsSendMessageOk ==
    SendMessageReturns({<<>>}, {<< Message("user", <<"q">>) >>},
                       { get_models(strategy)[1], "o1-mini" },
                       { r \in Responses(strategy) :
                           r.content = Text(<<"a", " ">>) /\ r.finish_reason = "stop" })

InitializeLlmStats ==
    /\ pc = "idle"
    /\ session_state' = initialize_llm_stats(session_state)
    /\ op' = "initialize_llm_stats"
    /\ UNCHANGED <<strategy, self, pc, frame, calls, warnings, result, query, stale,
                   requests, provider, threads, exclusive, ledger, document>>

\* update_llm_stats(llm_strategy, model_name) after a request; when get_full_price raises
\* the exception leaves the function and nothing is added
UpdateLlmStats ==
    /\ pc = "idle"
    /\ Len(ledger) < MaxUpdates
    /\ session_state' = update_llm_stats(strategy, self, self.model, session_state)
    /\ ledger' = IF update_llm_stats_raises(strategy, self)
                 THEN ledger
                 ELSE Append(ledger, llm_stats(strategy, self, self.model))
    /\ op' = "update_llm_stats"
    /\ result' = IF update_llm_stats_raises(strategy, self)
                 THEN [content |-> NoneContent, finish_reason |-> "ValueError"]
                 ELSE NoResult
    /\ UNCHANGED <<strategy, self, pc, frame, calls, warnings, query, stale,
                   requests, provider, threads, exclusive, document>>

ResetLlmStats ==
    /\ pc = "idle"
    /\ session_state' = reset_llm_stats(session_state)
    /\ ledger' = <<>>
    /\ op' = "reset_llm_stats"
    /\ UNCHANGED <<strategy, self, pc, frame, calls, warnings, result, query, stale,
                   requests, provider, threads, exclusive, document>>

NextStats ==
    \/ StatsSendMessageOk
    \/ Return
    \/ InitializeLlmStats
    \/ UpdateLlmStats
    \/ ResetLlmStats

SpecStats == Init /\ [][NextStats]_vars

(***************************************************************************)
(* generate_large_document, one request at a time                          *)
(***************************************************************************)
\* most data chunks after the initial one
MaxChunks == 2

\* largest max_retries
MaxRetries == 2

\* what the provider answers to a request of generate_large_document
GldResponses(s) ==
    LET u0 == CHOOSE u \in Usages(s) : TRUE
        u1 == CHOOSE u \in Usages(s) : u # u0
    IN  { [content |-> Text(<<"a">>), finish_reason |-> "stop", usage |-> u0],
          [content |-> Text(<<"b">>), finish_reason |-> "stop", usage |-> u1],
          [content |-> NoneContent, finish_reason |-> "stop", usage |-> u0] }

\* generate_large_document is called: safe_operation enters _generate_large_document_impl
GldStart ==
    /\ pc = "idle"
    /\ \E model_name \in { get_models(strategy)[1], "o1-mini" }, n \in 0..MaxChunks,
          max_retries \in (-1)..MaxRetries :
         document' = [NoDocument EXCEPT
                        !.model_name = model_name,
                        !.continuation_data =
                            SubSeq(<< <<"d1">>, <<"d2">>, <<"d3">>, <<"d4">> >>, 1, n),
                        !.max_retries = max_retries]
    /\ pc' = "gld_initial"
    /\ op' = "generate_large_document"
    /\ result' = NoResult
    /\ query' = NoQuery
    /\ stale' = HasCounts(self)
    /\ UNCHANGED <<strategy, self, frame, calls, warnings, requests, provider, threads,
                   exclusive, session_state, ledger>>

\* the locals after a step, and the result once the call has returned
GldContinues(doc) ==
    /\ document' = doc
    /\ pc' = IF doc.returned.done THEN "done" ELSE "gld_chunk"
    /\ result' = IF doc.returned.done
                 THEN [content |-> doc.returned.value, finish_reason |-> None]
                 ELSE NoResult
    /\ UNCHANGED <<strategy, frame, calls, warnings, op, query, stale, provider, threads,
                   exclusive>>

\* the initial request is answered with the tuple send_message returns, which becomes
\* the document; update_llm_stats follows
GldInitial ==
    /\ pc = "gld_initial"
    /\ \E response \in GldResponses(strategy) :
         LET new_self == send_message(strategy, self, document.model_name, response.usage)
             raises == update_llm_stats_raises(strategy, new_self)
             sent == [document EXCEPT !.sends = @ + 1]
         IN  /\ self' = new_self
             /\ requests' = << BuildRequest(strategy, <<"s">>,
                                            << Message("user", <<"i">>) >>,
                                            document.model_name, 2048, 0) >>
             /\ session_state' = update_llm_stats(strategy, new_self, document.model_name,
                                                  session_state)
             /\ ledger' = IF raises THEN ledger
                          ELSE Append(ledger, llm_stats(strategy, new_self,
                                                        document.model_name))
             /\ GldContinues(IF raises
                             THEN ReturnDocument(sent, DefaultReturn)
                             ELSE EnterLoop([sent EXCEPT
                                               !.updates = @ + 1,
                                               !.current_document =
                                                   TupleValue(response.content,
                                                              response.finish_reason),
                                               !.parts = <<response.content>>]))

\* one pass of the retry loop in which the request is answered: update_llm_stats
\* follows, then the continuation, a tuple, is added to the document
GldChunk ==
    /\ pc = "gld_chunk"
    /\ \E response \in GldResponses(strategy) :
         LET new_self == send_message(strategy, self, document.model_name, response.usage)
             raises == update_llm_stats_raises(strategy, new_self)
             sent == [document EXCEPT !.sends = @ + 1, !.attempts = @ + 1]
         IN  /\ self' = new_self
             /\ requests' =
                  << BuildRequest(strategy, <<"s">>,
                       << Message("user",
                            ContinuationMessage(<<"c">>, document.current_document,
                                document.continuation_data[document.chunk])) >>,
                       document.model_name, 2048, 0) >>
             /\ session_state' = update_llm_stats(strategy, new_self,
                                                  document.model_name, session_state)
             /\ ledger' = IF raises THEN ledger
                          ELSE Append(ledger, llm_stats(strategy, new_self,
                                                        document.model_name))
             /\ GldContinues(IF raises THEN Except(sent)
                             ELSE AfterUpdate([sent EXCEPT !.updates = @ + 1],
                                              TupleValue(response.content,
                                                         response.finish_reason)))

\* send_message is left by an exception: out of the initial request it leaves the
\* function, in the retry loop it is caught
GldSendFails ==
    /\ pc \in {"gld_initial", "gld_chunk"}
    /\ self' = send_message_failed(self, document.model_name)
    /\ LET sent == [document EXCEPT !.sends = @ + 1, !.raised_sends = @ + 1,
                                    !.attempts = IF pc = "gld_chunk" THEN @ + 1 ELSE @]
       IN  GldContinues(IF pc = "gld_initial"
                        THEN ReturnDocument(sent, DefaultReturn)
                        ELSE Except(sent))
    /\ UNCHANGED <<requests, session_state, ledger>>

NextDocument ==
    \/ GldStart
    \/ GldInitial
    \/ GldChunk
    \/ GldSendFails

SpecDocument == Init /\ [][NextDocument]_vars

\* every request is answered or fails, and the caller does call
FairSpecDocument ==
    /\ Init
    /\ [][NextDocument]_vars
    /\ WF_vars(GldStart)
    /\ WF_vars(GldInitial \/ GldChunk \/ GldSendFails)

(***************************************************************************)
(* ui: the page pipeline over st.session_state                             *)
(***************************************************************************)
\* the session after the first run of the script: initialize_app_state has created the
\* keys, the sidebar has stored a strategy in llm_settings or has none to store
InitUI ==
    /\ \E i \in 1..Len(get_available_providers) :
         /\ provider = get_available_providers[i]
         /\ strategy = create_strategy(get_available_providers[i]).value
    /\ \E llm_settings \in {None, "strategy"} :
         session_state = [initialize_llm_stats(EmptySession) EXCEPT
                            !.file_status = "not_uploaded",
                            !.llm_settings = llm_settings]
    /\ self = NewSelf
    /\ pc = "idle"
    /\ frame = EmptyFrame
    /\ calls = <<>>
    /\ warnings = 0
    /\ result = NoResult
    /\ op = None
    /\ query = NoQuery
    /\ stale = FALSE
    /\ requests = <<>>
    /\ threads = NoThreads
    /\ exclusive = TRUE
    /\ ledger = <<>>
    /\ document = NoDocument

\* the delete button is on the page: render_main_page calls render_delete_controls,
\* which draws the button
delete_button_rendered(file_status) ==
    /\ file_status \in {"uploaded", "transcribed", "speakers_processed",
                        "corrections_processed", "documents_created"}
    /\ file_status \in {"uploaded", "transcribed", "speakers_processed",
                        "corrections_processed"}

\* clear_state, and the None that initialize_app_state puts under the deleted keys on
\* the rerun
clear_state(ss) ==
    [ss EXCEPT !.file_status = "not_uploaded", !.file_path = None, !.file_size = None,
               !.transcript_text = None, !.speaker_stats = None,
               !.analysis_results = None, !.speaker_updated_transcript = None,
               !.correction_results = None, !.corrected_transcript = None,
               !.transcript_document = None, !.transcript_document_path = None,
               !.meeting_summary = None, !.meeting_summary_path = None]

\* the upload button: the file is saved or not, transcribed at once or not, and the
\* transcript file read when it exists (it may be empty)
UploadAndProcess ==
    /\ session_state.file_status = "not_uploaded"
    /\ \E file \in {"a.mp3", "b.mp3"}, file_result \in BOOLEAN,
          transcription_result \in BOOLEAN, transcript_text \in {None, "", "text"} :
         session_state' =
             IF ~file_result THEN session_state
             ELSE [session_state EXCEPT
                     !.file_path = file,
                     !.file_size = "size",
                     !.file_status = IF transcription_result THEN "transcribed"
                                     ELSE "uploaded",
                     !.transcript_text = IF transcription_result /\ transcript_text # None
                                         THEN transcript_text ELSE @]
    /\ UNCHANGED <<strategy, self, pc, frame, calls, warnings, result, op, query, stale,
                   requests, provider, threads, exclusive, ledger, document>>

\* the button of render_transcription_controls
RecognizeSpeech ==
    /\ session_state.file_status = "uploaded"
    /\ session_state.file_path # None
    /\ \E transcription_result \in BOOLEAN, transcript_text \in {None, "", "text"} :
         session_state' =
             IF ~transcription_result THEN session_state
             ELSE [session_state EXCEPT
                     !.file_status = "transcribed",
                     !.transcript_text = IF transcript_text # None THEN transcript_text
                                         ELSE @]
    /\ UNCHANGED <<strategy, self, pc, frame, calls, warnings, result, op, query, stale,
                   requests, provider, threads, exclusive, ledger, document>>

\* render_speaker_define_controls with a transcript: the statistics are computed, the
\* analysis is run when its button is pressed and gives results or not, the names are
\* applied in the editor or not
DefineSpeakers ==
    /\ session_state.file_status = "transcribed"
    /\ session_state.transcript_text \notin {None, ""}
    /\ \E pressed \in BOOLEAN, applied \in BOOLEAN :
         LET llm_strategy == session_state.llm_settings # None
             analysis_results == IF llm_strategy /\ pressed THEN "results"
                                 ELSE session_state.analysis_results
             updated == llm_strategy /\ analysis_results # None /\ applied
         IN  session_state' =
                 [session_state EXCEPT
                    !.speaker_stats = "stats",
                    !.analysis_results = analysis_results,
                    !.speaker_updated_transcript = IF updated THEN "text" ELSE @,
                    !.file_status = IF updated THEN "speakers_processed" ELSE @]
    /\ UNCHANGED <<strategy, self, pc, frame, calls, warnings, result, op, query, stale,
                   requests, provider, threads, exclusive, ledger, document>>

\* render_correction_controls with a named transcript and a strategy: the corrections
\* are searched when the button is pressed, and applied in the editor or not
CorrectTranscript ==
    /\ session_state.file_status = "speakers_processed"
    /\ session_state.speaker_updated_transcript \notin {None, ""}
    /\ session_state.llm_settings # None
    /\ \E pressed \in BOOLEAN, applied \in BOOLEAN :
         LET correction_results == IF pressed THEN "results"
                                   ELSE session_state.correction_results
             corrected == correction_results # None /\ applied
         IN  session_state' =
                 [session_state EXCEPT
                    !.correction_results = correction_results,
                    !.corrected_transcript = IF corrected THEN "text" ELSE @,
                    !.file_status = IF corrected THEN "corrections_processed" ELSE @]
    /\ UNCHANGED <<strategy, self, pc, frame, calls, warnings, result, op, query, stale,
                   requests, provider, threads, exclusive, ledger, document>>

\* the button of render_document_controls: the documents are generated (the requests
\* are those of generate_large_document above) and saved, or saving raises and the
\* exception is shown
CreateDocuments ==
    /\ session_state.file_status = "corrections_processed"
    /\ \/ session_state.corrected_transcript \notin {None, ""}
       \/ session_state.speaker_updated_transcript \notin {None, ""}
    /\ session_state.analysis_results # None
    /\ session_state.llm_settings # None
    /\ \E saved \in BOOLEAN :
         session_state' =
             IF ~saved THEN session_state
             ELSE [session_state EXCEPT
                     !.transcript_document = "document",
                     !.transcript_document_path = "path",
                     !.meeting_summary = "document",
                     !.meeting_summary_path = "path",
                     !.file_status = "documents_created"]
    /\ UNCHANGED <<strategy, self, pc, frame, calls, warnings, result, op, query, stale,
                   requests, provider, threads, exclusive, ledger, document>>

\* the delete button: the files are removed, or removing raises and nothing is cleared
DeleteFiles ==
    /\ delete_button_rendered(session_state.file_status)
    /\ session_state.file_path # None
    /\ \E deleted \in BOOLEAN :
         session_state' = IF deleted THEN clear_state(session_state) ELSE session_state
    /\ UNCHANGED <<strategy, self, pc, frame, calls, warnings, result, op, query, stale,
                   requests, provider, threads, exclusive, ledger, document>>

\* the debug panel of the sidebar: reset_app_state drops every key but the settings,
\* the other button sets the status of the last step but one
DebugPanel ==
    /\ \/ /\ session_state' =
               [reset_llm_stats(clear_state(session_state)) EXCEPT
                  !.llm_settings = session_state.llm_settings]
          /\ ledger' = <<>>
       \/ /\ session_state' =
               [session_state EXCEPT !.file_status = "corrections_processed"]
          /\ UNCHANGED ledger
    /\ UNCHANGED <<strategy, self, pc, frame, calls, warnings, result, op, query, stale,
                   requests, provider, threads, exclusive, document>>

NextUI ==
    \/ UploadAndProcess
    \/ RecognizeSpeech
    \/ DefineSpeakers
    \/ CorrectTranscript
    \/ CreateDocuments
    \/ DeleteFiles
    \/ DebugPanel

SpecUI == InitUI /\ [][NextUI]_vars

(***************************************************************************)
(* Vocabulary of the properties                                            *)
(***************************************************************************)
InGfr == op = "generate_full_response"

Completed == pc = "done"

\* the provider's length-truncation sentinel, as the specification names it
Sentinel(s) == IF s = "AnthropicChatStrategy" THEN "max_tokens" ELSE "length"

TruncatedCall(i) == calls[i].finish_reason = Sentinel(strategy)

RECURSIVE TotalCounters(_, _)
TotalCounters(s, cs) ==
    IF cs = <<>> THEN ZeroCounters
    ELSE LET h == ResponseCounters(s, Head(cs).usage)
             t == TotalCounters(s, Tail(cs))
         IN  [input_tokens |-> h.input_tokens + t.input_tokens,
              output_tokens |-> h.output_tokens + t.output_tokens,
              cache_create_tokens |-> h.cache_create_tokens + t.cache_create_tokens,
              cache_read_tokens |-> h.cache_read_tokens + t.cache_read_tokens]

RECURSIVE ConcatContents(_)
ConcatContents(cs) ==
    IF cs = <<>> THEN <<>>
    ELSE (IF Head(cs).content.isNone THEN <<>> ELSE Head(cs).content.text)
         \o ConcatContents(Tail(cs))

\* r is s with its leading and trailing whitespace removed
IsTrimOf(r, s) ==
    /\ r # <<>> => (r[1] \notin Whitespace /\ r[Len(r)] \notin Whitespace)
    /\ \E a \in 0..Len(s) : \E b \in a..Len(s) :
         /\ r = SubSeq(s, a + 1, b)
         /\ \A k \in (1..a) \cup ((b + 1)..Len(s)) : s[k] \in Whitespace

Min(a, b) == IF a <= b THEN a ELSE b

\* 1-based position of the first response that is not truncated, if there is one
NonTruncated == { i \in 1..Len(calls) : ~TruncatedCall(i) }

FirstNonTruncated == CHOOSE i \in NonTruncated : \A j \in NonTruncated : i <= j

(***************************************************************************)
(* C1: generate_full_response never makes more send_message calls than    *)
(* max_continuation_attempts, whatever the provider answers, and once      *)
(* started it ends (it returns or the provider error leaves it).           *)
(***************************************************************************)
C1_TerminatesWithinAttempts ==
    /\ []((InGfr /\ frame.max_continuation_attempts >= 0) =>
             Len(calls) <= frame.max_continuation_attempts)
    /\ (pc \in {"loop", "finish"}) ~> (pc \in {"done", "raised"})

C1_Witness ==
    /\ InGfr /\ Completed
    /\ frame.max_continuation_attempts = MaxAttempts
    /\ Len(calls) = MaxAttempts
    /\ \A i \in 1..Len(calls) : TruncatedCall(i)

(***************************************************************************)
(* C2: the text generate_full_response returns is the concatenation, in   *)
(* call order, of the contents of all calls made, with the leading and     *)
(* trailing whitespace of the whole removed.                               *)
(***************************************************************************)
C2_TrimmedConcatenation ==
    (InGfr /\ Completed) =>
        /\ ~result.content.isNone
        /\ IsTrimOf(result.content.text, ConcatContents(calls))

C2_Witness ==
    /\ InGfr /\ Completed
    /\ Len(calls) = 3
    /\ calls[1].content # calls[2].content
    /\ calls[2].content = calls[3].content
    /\ result.content.text # <<>>
    /\ result.content.text # ConcatContents(calls)

(***************************************************************************)
(* C3: after generate_full_response completes, the four accessors return  *)
(* the sums over all its calls of the counters each call reported.         *)
(***************************************************************************)
C3_AggregatedUsage ==
    (InGfr /\ Completed) =>
        /\ get_input_tokens(self) = TotalCounters(strategy, calls).input_tokens
        /\ get_output_tokens(self) = TotalCounters(strategy, calls).output_tokens
        /\ get_cache_create_tokens(self) = TotalCounters(strategy, calls).cache_create_tokens
        /\ get_cache_read_tokens(self) = TotalCounters(strategy, calls).cache_read_tokens

C3_Witness ==
    /\ InGfr /\ Completed /\ stale
    /\ Len(calls) >= 2
    /\ TruncatedCall(Len(calls))
    /\ Counters(self) # ResponseCounters(strategy, calls[Len(calls)].usage)
    /\ ResponseCounters(strategy, calls[Len(calls)].usage) # ZeroCounters

(***************************************************************************)
(* C4: with a current model name that is not in the catalog, cost()       *)
(* returns 0.0 and does not raise.                                         *)
(***************************************************************************)
C4_CostOfUnknownModelIsZero ==
    (/\ query.name = "get_full_price"
     /\ self.model # None
     /\ ~InList(get_models(strategy), self.model))
        => query.returned = Returned(0)

C6_CallCount ==
    (InGfr /\ pc \in {"finish", "done"} /\ frame.max_continuation_attempts >= 0) =>
        Len(calls) = IF NonTruncated = {}
                     THEN frame.max_continuation_attempts
                     ELSE Min(frame.max_continuation_attempts, FirstNonTruncated)

C6_Witness ==
    /\ InGfr /\ Completed
    /\ frame.max_continuation_attempts = 3
    /\ Len(calls) = 3
    /\ TruncatedCall(1) /\ TruncatedCall(2) /\ ~TruncatedCall(3)

(***************************************************************************)
(* C7: a continuation call follows a response only if its stop reason is  *)
(* the sentinel of the strategy's own provider: "max_tokens" for           *)
(* Anthropic, "length" for OpenAI and Deepseek.                            *)
(***************************************************************************)
C7_ProviderSentinel ==
    InGfr =>
        \A i \in 1..Len(calls) :
            (i < Len(calls) \/ pc \in {"loop", "raised"}) =>
                calls[i].finish_reason =
                    (CASE strategy = "AnthropicChatStrategy" -> "max_tokens"
                       [] strategy = "OpenAIChatStrategy" -> "length"
                       [] strategy = "DeepseekChatStrategy" -> "length")

C7_Witness ==
    /\ InGfr /\ Completed
    /\ strategy = "AnthropicChatStrategy"
    /\ frame.max_continuation_attempts >= 3
    /\ Len(calls) = 2
    /\ calls[1].finish_reason = "max_tokens"
    /\ calls[2].finish_reason = "length"

(***************************************************************************)
(* C8: the truncation warning is logged exactly when the call of the      *)
(* final allowed attempt is truncated; the operation then still returns    *)
(* the concatenated text.                                                  *)
(***************************************************************************)
C8_WarningOnFinalTruncation ==
    InGfr =>
        LET m == frame.max_continuation_attempts
            finalTruncated ==
                /\ pc \in {"finish", "done"}
                /\ m >= 1
                /\ Len(calls) = m
                /\ TruncatedCall(m)
        IN  /\ warnings = IF finalTruncated THEN 1 ELSE 0
            /\ (Completed /\ finalTruncated) =>
                   result.content = Text(strip(ConcatContents(calls)))

C8_Witness ==
    /\ InGfr /\ Completed
    /\ warnings = 1
    /\ Len(calls) = MaxAttempts
    /\ result.content.text # <<>>

(***************************************************************************)
(* C9: outputCeiling(modelName) returns the declared ceiling of a catalog *)
(* model; for a name that is not in the catalog it returns the ceiling of  *)
(* the first catalog model and does not raise.                             *)
(***************************************************************************)
DeclaredCeiling(s, name) ==
    CHOOSE i \in 1..Len(models(s)) : models(s)[i].name = name

C9_CeilingOrFirstModel ==
    query.name = "get_output_max_tokens" =>
        IF \E i \in 1..Len(models(strategy)) : models(strategy)[i].name = query.arg
        THEN query.returned =
                 Returned(models(strategy)[DeclaredCeiling(strategy, query.arg)].output_max_tokens)
        ELSE query.returned = Returned(models(strategy)[1].output_max_tokens)

\* the claim as written: an absent name fails with UnknownModel
C9_UnknownModelRaises ==
    query.name = "get_output_max_tokens" =>
        IF \E i \in 1..Len(models(strategy)) : models(strategy)[i].name = query.arg
        THEN query.returned =
                 Returned(models(strategy)[DeclaredCeiling(strategy, query.arg)].output_max_tokens)
        ELSE query.returned.raised # None

C9_Witness ==
    /\ query.name = "get_output_max_tokens"
    /\ query.arg = "o1-mini"
    /\ strategy = "OpenAIChatStrategy"
    /\ query.returned = Returned(32768)

(***************************************************************************)
(* C10: create matches the provider identifier case-insensitively, fails  *)
(* with ValueError for every other identifier and then builds no strategy, *)
(* and accepts every identifier get_available_providers lists.             *)
(***************************************************************************)
IsCaseVariant(id, name) ==
    /\ Len(id) = Len(name)
    /\ \A i \in 1..Len(name) : id[i] = name[i] \/ id[i] = UpperChar(name[i])

C10_FactoryCaseInsensitive ==
    /\ op = "create_strategy" =>
         /\ IsCaseVariant(provider, anthropic) =>
                (pc = "idle" /\ strategy = "AnthropicChatStrategy")
         /\ IsCaseVariant(provider, openai) =>
                (pc = "idle" /\ strategy = "OpenAIChatStrategy")
         /\ IsCaseVariant(provider, deepseek) =>
                (pc = "idle" /\ strategy = "DeepseekChatStrategy")
         /\ (~IsCaseVariant(provider, anthropic) /\ ~IsCaseVariant(provider, openai)
                /\ ~IsCaseVariant(provider, deepseek)) =>
                (pc = "raised" /\ strategy = None)
         /\ (query.name = "get_available_providers"
                /\ InList(query.returned.value, provider)) => pc = "idle"
    /\ query.name = "get_available_providers" =>
         query.returned = Returned(<<anthropic, openai, deepseek>>)

C10_Witness ==
    /\ op = "create_strategy"
    /\ provider = <<"D", "e", "e", "p", "S", "e", "e", "k">>
    /\ strategy = "DeepseekChatStrategy"
    /\ query.name = "get_available_providers"

(***************************************************************************)
(* C11: when a send_message call inside generate_full_response fails with  *)
(* a provider error, generate_full_response neither catches nor retries    *)
(* it: the error reaches the caller, the operation makes no further        *)
(* send_message call, and no partial text is returned.                     *)
(***************************************************************************)
\* a request that was handed to the provider and got no response
FailedCall == Len(requests) > Len(calls)

C11_ProviderErrorPropagates ==
    InGfr =>
        /\ FailedCall =>
             /\ pc = "raised"
             /\ Len(requests) = Len(calls) + 1
             /\ result = NoResult
        /\ pc = "raised" => FailedCall

C11_Witness ==
    /\ InGfr
    /\ pc = "raised"
    /\ Len(calls) >= 2
    /\ frame.full_response_content # <<>>
    /\ result = NoResult

(***************************************************************************)
(* C12: for every catalog model and all non-negative counters, cost() is  *)
(* input*priceInput/1e6 + output*priceOutput/1e6                           *)
(* + cacheCreate*priceInput*CREATE_MULT/1e6                                *)
(* + cacheRead*priceInput*READ_MULT/1e6, with (CREATE_MULT, READ_MULT) =   *)
(* (1.25, 0.10) for Anthropic, (1.00, 0.50) for OpenAI and (1.00, 0.10)    *)
(* for Deepseek's deepseek-chat; a model priced 3.0/15.0 gives 0.0105 for  *)
(* (1000, 500, 0, 0) and 0.00105 for (0, 0, 200, 1000) on Anthropic.       *)
(* Amounts are in units of 1e-10 dollars: prices in cents per million      *)
(* tokens, multipliers in percent.                                         *)
(***************************************************************************)
CreateMultPercent(s) == IF s = "AnthropicChatStrategy" THEN 125 ELSE 100

ReadMultPercent(s) == IF s = "OpenAIChatStrategy" THEN 50 ELSE 10

CatalogEntry(s, name) == models(s)[CHOOSE i \in 1..Len(models(s)) : models(s)[i].name = name]

InCatalog(s, name) == \E i \in 1..Len(models(s)) : models(s)[i].name = name

FormulaCost(s, slf) ==
    LET priceInput == CatalogEntry(s, slf.model).price_input
        priceOutput == CatalogEntry(s, slf.model).price_output
    IN  slf.input_tokens * priceInput * 100
        + slf.output_tokens * priceOutput * 100
        + slf.cache_create_tokens * priceInput * CreateMultPercent(s)
        + slf.cache_read_tokens * priceInput * ReadMultPercent(s)

Tokens(slf) ==
    <<slf.input_tokens, slf.output_tokens, slf.cache_create_tokens, slf.cache_read_tokens>>

C13_ReasonerCacheRead ==
    (query.name = "get_full_price" /\ strategy = "DeepseekChatStrategy") =>
        /\ self.model = "deepseek-reasoner" =>
             /\ CatalogEntry(strategy, self.model).price_input = 55
             /\ query.returned =
                  Returned(self.input_tokens * 55 * 100
                           + self.output_tokens
                               * CatalogEntry(strategy, self.model).price_output * 100
                           + self.cache_create_tokens * 55 * 100
                           + self.cache_read_tokens * 14 * 100)
        /\ self.model = "deepseek-chat" =>
             query.returned =
                 Returned(self.input_tokens * 14 * 100
                          + self.output_tokens
                              * CatalogEntry(strategy, self.model).price_output * 100
                          + self.cache_create_tokens * 14 * 100
                          + self.cache_read_tokens * 14 * 10)

C13_Witness ==
    /\ query.name = "get_full_price"
    /\ strategy = "DeepseekChatStrategy"
    /\ self.model = "deepseek-reasoner"
    /\ Tokens(self) = <<200, 500, 200, 1000>>
    /\ query.returned = Returned(200 * 5500 + 500 * 21900 + 200 * 5500 + 1000 * 1400)

(***************************************************************************)
(* C14: a strategy the factory has just produced, on which neither         *)
(* send_message nor generate_full_response has been called, has no model   *)
(* name, four zero counters, and a cost of 0.0.                            *)
(***************************************************************************)
Fresh == op = "create_strategy" /\ pc = "idle"

C14_FreshStrategy ==
    Fresh =>
        /\ strategy \in Strategies
        /\ self.model = None
        /\ Counters(self) = ZeroCounters
        /\ get_full_price(strategy, self) = Returned(0)
        /\ query.name \in {"get_full_price", "get_input_tokens", "get_output_tokens",
                           "get_cache_create_tokens", "get_cache_read_tokens"} =>
               query.returned = Returned(0)

C14_Witness ==
    /\ Fresh
    /\ strategy = "OpenAIChatStrategy"
    /\ provider = <<"O", "p", "e", "n", "A", "I">>
    /\ query.name = "get_full_price"
    /\ query.returned = Returned(0)

(***************************************************************************)
(* C15: get_full_price, get_models, get_output_max_tokens and the four     *)
(* token accessors are read-only: calling them changes neither the         *)
(* snapshot nor the catalog, and get_full_price called twice in a row      *)
(* returns the same value; only send_message and generate_full_response    *)
(* change the snapshot.                                                    *)
(***************************************************************************)
QueryNames ==
    {"get_full_price", "get_models", "get_output_max_tokens", "get_input_tokens",
     "get_output_tokens", "get_cache_create_tokens", "get_cache_read_tokens"}

\* a step in which one of the queries returns
QueryStep == query' # query /\ query'.name \in QueryNames

\* a step of send_message or of generate_full_response
OperationStep ==
    /\ op' \in {"send_message", "generate_full_response"}
    /\ pc # "idle" \/ pc' # "idle"

C15_QueriesReadOnly ==
    /\ [][/\ QueryStep => (self' = self /\ strategy' = strategy
                           /\ models(strategy') = models(strategy))
          /\ self' # self => OperationStep]_vars
    /\ []((pc = "idle" /\ query.name = "get_full_price") =>
              get_full_price(strategy, self) = query.returned)

C15_Witness ==
    /\ pc = "idle"
    /\ query.name = "get_full_price"
    /\ HasCounts(self)
    /\ query.returned.raised = None
    /\ query.returned.value > 0

(***************************************************************************)
(* C17: the conversation handed to send_message during one                 *)
(* generate_full_response only grows and has a fixed shape: the k-th call  *)
(* receives exactly 2k-1 messages, the first a user message with the       *)
(* initial user message, then for each earlier round i an assistant        *)
(* message with chunk i's content and a user message built from the        *)
(* continuation template; roles alternate, the last message is a user      *)
(* message, and messages once appended are neither changed nor removed.    *)
(***************************************************************************)
IsPrefix(a, b) == Len(a) <= Len(b) /\ a = SubSeq(b, 1, Len(a))

\* the text of chunk i as the conversation carries it
ChunkText(i) == IF calls[i].content.isNone THEN <<>> ELSE calls[i].content.text

\* the continuation prompt after chunk i, for the two templates a caller passes here
ContinuationText(i) ==
    IF frame.continuation_prompt_template = DefaultTemplate
    THEN DefaultTemplate
    ELSE ChunkText(i) \o <<"+">>

C17_ConversationShape ==
    (InGfr /\ pc # "idle") =>
        /\ \A k \in 1..Len(requests) :
             LET ms == requests[k].messages
             IN  /\ Len(ms) = 2 * k - 1
                 /\ ms[1] = [role |-> "user", content |-> frame.initial_user_message]
                 /\ \A i \in 1..(k - 1) :
                      /\ ms[2 * i] = [role |-> "assistant", content |-> ChunkText(i)]
                      /\ ms[2 * i + 1] = [role |-> "user", content |-> ContinuationText(i)]
                 /\ \A j \in 1..Len(ms) :
                      ms[j].role = IF j % 2 = 1 THEN "user" ELSE "assistant"
                 /\ ms[Len(ms)].role = "user"
                 /\ requests[k].messages_after = ms
                 /\ k > 1 => IsPrefix(requests[k - 1].messages, ms)
        /\ requests # <<>> =>
             IsPrefix(requests[Len(requests)].messages, frame.current_messages)

C17_Witness ==
    /\ InGfr
    /\ Len(requests) = 3
    /\ Len(calls) = 3
    /\ calls[1].content.isNone
    /\ frame.continuation_prompt_template # DefaultTemplate
    /\ Len(requests[3].messages) = 5

(***************************************************************************)
(* C19: token-bucket conservation for OpenAI and Deepseek.  After a        *)
(* send_message, input + cacheCreate + cacheRead equals the prompt tokens  *)
(* the provider reported.  Deepseek: cacheCreate is the cache-miss count,  *)
(* cacheRead the cache-hit count, input = prompt - hit - miss.  OpenAI:    *)
(* cacheCreate is always 0, cacheRead the cached count, input = prompt -   *)
(* cached.                                                                 *)
(***************************************************************************)
\* the snapshot is the one the latest send_message call wrote
JustSent ==
    \/ op = "send_message" /\ pc = "done"
    \/ InGfr /\ pc \in {"loop", "finish"} /\ calls # <<>>

LastUsage == calls[Len(calls)].usage

C19_TokenBuckets ==
    (JustSent /\ strategy \in {"OpenAIChatStrategy", "DeepseekChatStrategy"}) =>
        /\ self.input_tokens + self.cache_create_tokens + self.cache_read_tokens
             = LastUsage.prompt_tokens
        /\ strategy = "DeepseekChatStrategy" =>
             /\ self.cache_create_tokens = LastUsage.prompt_cache_miss_tokens
             /\ self.cache_read_tokens = LastUsage.prompt_cache_hit_tokens
             /\ self.input_tokens = LastUsage.prompt_tokens
                                      - LastUsage.prompt_cache_hit_tokens
                                      - LastUsage.prompt_cache_miss_tokens
        /\ strategy = "OpenAIChatStrategy" =>
             /\ self.cache_create_tokens = 0
             /\ self.cache_read_tokens = LastUsage.cached_tokens
             /\ self.input_tokens = LastUsage.prompt_tokens - LastUsage.cached_tokens

C19_Witness ==
    /\ op = "send_message" /\ pc = "done"
    /\ strategy = "DeepseekChatStrategy"
    /\ LastUsage.prompt_tokens = 6
    /\ self.input_tokens = 3
    /\ self.cache_create_tokens = 2
    /\ self.cache_read_tokens = 1
    /\ stale

(***************************************************************************)
(* C20: OpenAI puts exactly one "developer" message carrying the system    *)
(* prompt in front of the request's messages when the prompt is non-empty  *)
(* and nothing when it is empty; Deepseek always puts exactly one "system" *)
(* message in front, for an empty prompt too; in both, the caller's        *)
(* messages follow in their original order and the caller's list is left   *)
(* as it was.                                                              *)
(***************************************************************************)
Prepended(r) == Len(r.api.messages) - Len(r.messages)

CallerMessagesFollow(r) ==
    /\ Prepended(r) >= 0
    /\ \A j \in 1..Len(r.messages) : r.api.messages[Prepended(r) + j] = r.messages[j]

C20_SystemPromptPlacement ==
    \A k \in 1..Len(requests) :
        LET r == requests[k]
        IN  /\ strategy = "OpenAIChatStrategy" =>
                 /\ Prepended(r) = IF r.system_prompt # <<>> THEN 1 ELSE 0
                 /\ r.system_prompt # <<>> =>
                      r.api.messages[1] = [role |-> "developer", content |-> r.system_prompt]
                 /\ CallerMessagesFollow(r)
                 /\ r.messages_after = r.messages
            /\ strategy = "DeepseekChatStrategy" =>
                 /\ Prepended(r) = 1
                 /\ r.api.messages[1] = [role |-> "system", content |-> r.system_prompt]
                 /\ CallerMessagesFollow(r)
                 /\ r.messages_after = r.messages

C20_Witness ==
    /\ op = "send_message" /\ pc = "done"
    /\ strategy = "DeepseekChatStrategy"
    /\ requests[1].system_prompt = <<>>
    /\ Len(requests[1].messages) = 3
    /\ Len(requests[1].api.messages) = 4
    /\ requests[1].api.messages[1].role = "system"

(***************************************************************************)
(* C18: in every request the Anthropic send_message builds, whatever the   *)
(* input list, at most 4 messages carry the ephemeral cache hint, every    *)
(* hinted message has role "user", and every hinted message is the first   *)
(* message or one of the last 6; order, roles and text of the messages are *)
(* otherwise unchanged.                                                    *)
(***************************************************************************)
Hinted(out) == { j \in 1..Len(out) : out[j].content[1].cache_control = "ephemeral" }

C18_CacheHints ==
    strategy = "AnthropicChatStrategy" =>
        \A k \in 1..Len(requests) :
            LET r == requests[k]
                out == r.api.messages
                n == Len(r.messages)
            IN  /\ Len(out) = n
                /\ Cardinality(Hinted(out)) <= 4
                /\ \A j \in Hinted(out) :
                     /\ out[j].role = "user"
                     /\ j = 1 \/ j > n - 6
                /\ \A j \in 1..n :
                     /\ out[j].role = r.messages[j].role
                     /\ Len(out[j].content) = 1
                     /\ out[j].content[1].type = "text"
                     /\ out[j].content[1].text = r.messages[j].content
                     /\ out[j].content[1].cache_control \in {"ephemeral", None}
                /\ r.api.system = r.system_prompt
                /\ r.messages_after = r.messages

C18_Witness ==
    /\ strategy = "AnthropicChatStrategy"
    /\ op = "send_message" /\ pc = "done"
    /\ Len(requests[1].messages) = 8
    /\ \A j \in 1..8 : requests[1].messages[j].role = "user"
    /\ Hinted(requests[1].api.messages) = {1, 3, 4, 5}

(***************************************************************************)
(* C16: if two top-level operations interleave on the same instance, the   *)
(* snapshot writes race: some interleaving leaves a                        *)
(* generate_full_response whose accessors differ from the sum of its own   *)
(* calls' usage; when at most one operation runs at a time no such state   *)
(* is reachable.                                                           *)
(***************************************************************************)
\* generate_full_response of thread t has just written the snapshot and returns
GfrCompleted(t) ==
    threads[t].op = "generate_full_response" /\ threads[t].pc = "done"

InOperation(t) == threads[t].pc \notin {"idle", "returned"}

OwnUsage(t) == TotalCounters(strategy, threads[t].calls)

C16_ExclusiveUseKeepsOwnSum ==
    exclusive =>
        /\ \A t \in Threads : GfrCompleted(t) => Counters(self) = OwnUsage(t)
        /\ \A t \in Threads, u \in Threads :
             (InOperation(t) /\ InOperation(u)) => t = u

\* the race: a completed generate_full_response, sole writer since its own final
\* overwrite, reports counters that are not the sum of its own calls
C16_Witness ==
    /\ ~exclusive
    /\ \E t \in Threads :
         /\ GfrCompleted(t)
         /\ Len(threads[t].calls) = 2
         /\ Counters(self) = threads[t].aggregated
         /\ Counters(self) # OwnUsage(t)

(***************************************************************************)
(* C21: a send_message call inside generate_full_response that returns     *)
(* null or empty content adds no characters to the accumulated output, its *)
(* usage counters are still added to the aggregates, and, when it is       *)
(* truncated on a non-final attempt, the assistant message appended to the *)
(* conversation has the empty string as content.                           *)
(***************************************************************************)
NullOrEmpty(i) == calls[i].content.isNone \/ calls[i].content.text = <<>>

\* the calls that returned some text, in call order
RECURSIVE TextOfNonEmpty(_)
TextOfNonEmpty(i) ==
    IF i = 0 THEN <<>>
    ELSE TextOfNonEmpty(i - 1) \o (IF NullOrEmpty(i) THEN <<>> ELSE calls[i].content.text)

\* call i was followed by a continuation round
Continued(i) == 2 * i + 1 <= Len(frame.current_messages)

C21_NullContentChunk ==
    (InGfr /\ pc \in {"loop", "finish", "done"}) =>
        /\ frame.full_response_content = TextOfNonEmpty(Len(calls))
        /\ frame.aggregated = TotalCounters(strategy, calls)
        /\ \A i \in 1..Len(calls) :
             /\ (TruncatedCall(i) /\ i < frame.max_continuation_attempts) => Continued(i)
             /\ (NullOrEmpty(i) /\ Continued(i)) =>
                    frame.current_messages[2 * i] = [role |-> "assistant", content |-> <<>>]

C21_Witness ==
    /\ InGfr /\ Completed
    /\ Len(calls) = 3
    /\ calls[1].content.isNone
    /\ calls[2].content = Text(<<>>)
    /\ HasCounts([model |-> None] @@ ResponseCounters(strategy, calls[1].usage))
    /\ frame.current_messages[2] = [role |-> "assistant", content |-> <<>>]
    /\ frame.current_messages[4] = [role |-> "assistant", content |-> <<>>]
    /\ frame.full_response_content = calls[3].content.text
    /\ calls[3].content.text # <<>>

(***************************************************************************)
(* C25: a failed send_message leaves the four token counters as they were  *)
(* before the call but has already set the current model name to its       *)
(* model_name argument; so after a failed call get_full_price is computed  *)
(* from the previous operation's counters at the new model's prices, and   *)
(* the snapshot differs from the one before the call when the model name   *)
(* differs.                                                                *)
(***************************************************************************)
\* a step in which a send_message call (top-level or inside generate_full_response) raises
SendFails == pc \in {"idle", "loop"} /\ pc' = "raised"

ModelArgument == requests'[Len(requests')].api.model

C27_NoAttempts ==
    (InGfr /\ pc # "idle" /\ frame.max_continuation_attempts <= 0) =>
        /\ pc \in {"finish", "done"}
        /\ requests = <<>> /\ calls = <<>>
        /\ warnings = 0
        /\ self.model = frame.model_name
        /\ Completed =>
             /\ result.content = Text(<<>>)
             /\ Counters(self) = ZeroCounters

C27_Witness ==
    /\ InGfr /\ Completed
    /\ frame.max_continuation_attempts = -1
    /\ stale
    /\ self.model = "o1-mini"
    /\ Counters(self) = ZeroCounters
    /\ result.content = Text(<<>>)

(***************************************************************************)
(* C28: after generate_full_response completes with a catalog model,       *)
(* get_full_price on the aggregated snapshot equals the sum, over the      *)
(* internal calls, of the cost each call would have shown on its own:      *)
(* billing the operation once equals billing each chunk separately.        *)
(***************************************************************************)
\* the cost shown right after call i alone
CostOfCall(i) ==
    get_full_price(strategy,
                   [model |-> self.model] @@ ResponseCounters(strategy, calls[i].usage)).value

RECURSIVE SumOfCallCosts(_)
SumOfCallCosts(n) == IF n = 0 THEN 0 ELSE SumOfCallCosts(n - 1) + CostOfCall(n)

C29_FirstAndFinalHinted ==
    (strategy = "AnthropicChatStrategy" /\ InGfr) =>
        \A k \in 1..Len(requests) :
            LET out == requests[k].api.messages
                n == Len(out)
            IN  /\ n = 2 * k - 1
                /\ out[1].role = "user" /\ out[n].role = "user"
                /\ 1 \in Hinted(out)
                /\ n \in Hinted(out)
                /\ Cardinality(Hinted(out)) <= 4

C29_Witness ==
    /\ strategy = "AnthropicChatStrategy"
    /\ InGfr
    /\ Len(requests) = 5
    /\ Hinted(requests[5].api.messages) = {1, 5, 7, 9}

(***************************************************************************)
(* C22  Session totals accumulate the per-request usage: every              *)
(* update_llm_stats call that returns adds the strategy's four counters and *)
(* its cost to the totals and adds exactly 1 to total_calls, so the totals  *)
(* equal the sums over the statistics read at the updates made since the    *)
(* totals were created or reset; reset_llm_stats sets the six totals to     *)
(* zero; initialize_llm_stats leaves totals that exist as they are.         *)
(***************************************************************************)
RECURSIVE SumOver(_, _)
SumOver(entries, field) ==
    IF entries = <<>> THEN 0
    ELSE entries[1][field] + SumOver(Tail(entries), field)

Totals(ss) ==
    [full_price |-> ss.total_llm_cost,
     input_tokens |-> ss.total_input_tokens,
     output_tokens |-> ss.total_output_tokens,
     cache_create_tokens |-> ss.total_cache_create_tokens,
     cache_read_tokens |-> ss.total_cache_read_tokens]

TotalsAreSums ==
    /\ \A field \in DOMAIN Totals(session_state) :
         Totals(session_state)[field] = SumOver(ledger, field)
    /\ session_state.total_calls = Len(ledger)

UpdateReturned == op' = "update_llm_stats" /\ result'.finish_reason # "ValueError"

C22_SessionTotals ==
    /\ [](session_state.has_totals => TotalsAreSums)
    /\ [][ /\ (UpdateReturned /\ session_state.has_totals) =>
                /\ session_state'.total_calls = session_state.total_calls + 1
                /\ \A field \in DOMAIN Totals(session_state) :
                     Totals(session_state')[field] =
                         Totals(session_state)[field]
                             + llm_stats(strategy, self, self.model)[field]
           /\ (op' = "reset_llm_stats") =>
                /\ \A field \in DOMAIN Totals(session_state) :
                     Totals(session_state')[field] = 0
                /\ session_state'.total_calls = 0
           /\ (op' = "initialize_llm_stats" /\ session_state.has_totals) =>
                session_state' = session_state ]_vars

\* three requests of different usage were added to totals that an initialize call then
\* left alone
C22_Witness ==
    /\ op = "initialize_llm_stats"
    /\ Len(ledger) = 3
    /\ ledger[1] # ledger[2]
    /\ session_state.total_calls = 3
    /\ session_state.total_llm_cost > 0

(***************************************************************************)
(* C23  When no send_message call is left by an exception,                  *)
(* generate_large_document makes exactly 1 + len(continuation_data) calls,  *)
(* updates the session totals once per call, and returns the initial part   *)
(* followed by each chunk's continuation in chunk order, not the            *)
(* default_return placeholder.                                              *)
(***************************************************************************)
GldReturned == op = "generate_large_document" /\ pc = "done"

RECURSIVE JoinParts(_)
JoinParts(parts) ==
    IF Len(parts) = 1 THEN parts[1]
    ELSE Text(JoinParts(SubSeq(parts, 1, Len(parts) - 1)).text
                  \o <<"\n">> \o parts[Len(parts)].text)

C23_AllSendsSucceed ==
    (GldReturned /\ document.raised_sends = 0) =>
        /\ document.sends = 1 + Len(document.continuation_data)
        /\ document.updates = document.sends
        /\ Len(document.parts) = 1 + Len(document.continuation_data)
        /\ result.content = JoinParts(document.parts)
        /\ result.content # DefaultReturn

(***************************************************************************)
(* C24  generate_large_document always returns and bounds its retries: at   *)
(* most max_retries send_message calls per data chunk, hence at most        *)
(* 1 + len(continuation_data) * max_retries calls in all, whatever the      *)
(* calls raise; no exception reaches its caller.  (A negative max_retries   *)
(* makes no call for any chunk, as 0 does.)                                 *)
(***************************************************************************)
InGld == op = "generate_large_document"

C24_BoundedRetries ==
    /\ [](InGld =>
            /\ pc # "raised"
            /\ document.max_retries >= 0 =>
                 /\ document.attempts <= document.max_retries
                 /\ document.sends
                      <= 1 + Len(document.continuation_data) * document.max_retries
            /\ document.max_retries < 0 => document.sends <= 1)
    /\ (pc = "gld_initial") ~> (pc = "done")

\* the retries of a chunk were used up, two of three requests having raised
C24_Witness ==
    /\ GldReturned
    /\ document.max_retries = 2
    /\ Len(document.continuation_data) = 1
    /\ document.attempts = 2
    /\ document.sends = 3
    /\ document.raised_sends = 2

(***************************************************************************)
(* C30  In the page pipeline the delete control is offered in every status  *)
(* other than not_uploaded, documents_created included, so that from every  *)
(* reachable status a delete by the user can bring the pipeline back to     *)
(* not_uploaded.                                                            *)
(***************************************************************************)
C30_DeleteOfferedAfterUpload ==
    session_state.file_status # "not_uploaded" =>
        delete_button_rendered(session_state.file_status)

====
